---- MODULE Spec2Model ----
(***************************************************************************)
(* The streaming inference front-end of Lumilio-Photos' lumen-clip         *)
(* services: the batching UnifiedMLService and the per-message             *)
(* CLIPService and BioClipService with their chunk reassembly.             *)
(*                                                                         *)
(* One Infer stream of one servicer is modelled.  An Infer generator is    *)
(* single-threaded: between two reads of the inbound iterator it runs the  *)
(* loop body to its end, so one action is one loop iteration (the read,    *)
(* the reassembly, the routing and every response it yields).              *)
(***************************************************************************)
EXTENDS Integers, Sequences, FiniteSets, TLC

VARIABLES
    svc,             \* the servicer behind the stream: "unified", "clip", "bioclip"
    mode,            \* how the client's messages are enumerated: "short", "long", "meta",
                     \* "answer", "step", "frag", "anon", "caps", "conc", "manager", "serve", "pml"
    is_initialized,  \* [clip, bioclip]: the readiness flags Infer tests on entry
    pc,              \* the generator's position: "start", "await", "aborted", "crashed", "closed";
                     \* step mode adds "accumulating", "dispatching", "flushing"
    status,          \* the gRPC status the stream was aborted with, or "OK"
    inbound,         \* the request iterator: "open", or "ended" once the client is done
    buffers,         \* CLIPService/BioClipService.Infer: the dict buffers, cid -> bytes
    batch,           \* UnifiedMLService.Infer: batch
    lastMsg,         \* the message the last loop iteration read, or NoMsg
    lastAsm,         \* what _assemble returned for lastMsg: [payload, ready]
    lastBatch,       \* the batch the last loop iteration handed to _process_batch
    lastOut,         \* the responses the last loop iteration yielded, in order
    lastExc,         \* the exception the last loop iteration caught ("" when none)
    nread,           \* messages read from the inbound iterator
    nodd,            \* long mode: messages read that were not the default request
    nresp,           \* responses yielded on the stream
    nhandler,        \* task handlers invoked on the stream
    ndispatch,       \* calls of _process_batch on the stream
    ncomplete,       \* messages read that complete a logical request (by their fields)
    nfail,           \* loop iterations in which a handler failed or the task was unknown
    track,           \* per cid: the in-order upload in progress, as the client sees it
    expect,          \* what the in-order upload of lastMsg.cid requires of _assemble
    unanswered,      \* UnifiedMLService: requests read that no response has answered yet
    now,             \* _now_ms() as last read to make up a correlation id
    pending,         \* step mode: responses of the running _process_batch not yet yielded
    received,        \* step, frag and anon mode: every request read on the stream, in
                     \* order, under the correlation id the loop gave it (`cid`)
    dispatched,      \* step mode: every batch handed to _process_batch, end to end
    streams,         \* concurrent Infer calls on one servicer: the locals of each
    managers,        \* [clip, bioclip]: the fields of CLIPModelManager and
                     \* BioCLIPModelManager, and where a running initialize() stands
    server,          \* serve(): where it stands, whether the gRPC server listens, and
                     \* the status the process exited with
    servicer,        \* pml PredictionServiceServicer: model_registry.services, with the
                     \* fields of the CLIPService registered in it
    call             \* pml: the last call made on the servicer or on its CLIPService,
                     \* with what it returned

vars == <<svc, mode, is_initialized, pc, status, inbound, buffers, batch, lastMsg, lastAsm,
          lastBatch, lastOut, lastExc, nread, nodd, nresp, nhandler, ndispatch,
          ncomplete, nfail, track, expect, unanswered, now, pending, received,
          dispatched, streams, managers, server, servicer, call>>

\* The variables of the one-stream model.
single == <<svc, mode, is_initialized, pc, status, inbound, buffers, batch, lastMsg,
            lastAsm, lastBatch, lastOut, lastExc, nread, nodd, nresp, nhandler,
            ndispatch, ncomplete, nfail, track, expect, unanswered, now, pending,
            received, dispatched>>

\* The state outside the Infer streams.
\* The state of the pml server.
pml == <<servicer, call>>

offstream == <<managers, server, pml>>

\* What the actions of the one-stream model leave alone unless they say
\* otherwise.
apart == <<now, pending, received, dispatched, streams, offstream>>

----------------------------------------------------------------------------
(* Bounds of the model. *)

\* messages per stream in short mode (arbitrary messages)
MaxMsgs == 3
\* milliseconds the clock may advance over a stream
MaxClock == 2
\* messages per stream in long mode (default requests and a few others)
MaxLong == 9
\* messages of a long stream that are not the default request
MaxOdd == 2
\* largest `total` a fragment carries
MaxTotal == 2
\* labels each model ranks (no fewer than the default topk)
NumLabels == 5
\* width of the embedding vectors
EmbeddingDim == 2
\* messages per stream in answer mode (requests with a topk)
MaxAnswer == 2
\* messages per stream in step mode (the loop of UnifiedMLService, step by step)
MaxStep == 9
\* messages per stream in anon mode (requests without a correlation id)
MaxAnon == 4
\* messages per stream in caps mode (one request per task name)
MaxCaps == 2
\* largest load time initialize() may measure
MaxLoadTime == 1
\* calls of initialize() per manager
MaxCalls == 3
\* requests in one BatchPredict
MaxBatch == 2

(* Program constants. *)
BATCH_SIZE == 8

Cids == {"c1", "c2"}
\* req.meta with neither key set: meta.get falls back to its default.
NoMeta == [namespace |-> "", topk |-> ""]
NoMsg == [correlation_id |-> "", task |-> "", payload |-> <<>>, payload_mime |-> "",
          meta |-> NoMeta, seq |-> 0, total |-> 0, offset |-> 0]

\* A byte below 128 is ASCII; 255 never occurs in UTF-8 and stands for any
\* payload the decoder (bytes.decode, the image decoder) rejects.
Bytes == {65, 255}
Payloads == {<<b>> : b \in Bytes}

Decodes(payload) == \A i \in 1..Len(payload) : payload[i] < 128

----------------------------------------------------------------------------
(* Responses (pb.InferResponse). *)

\* `result` is the JSON document: the model keeps the bytes it was computed
\* from and, beside them, the names in its "labels" array (none in an
\* embedding).  `meta` is the response's string map.
Success(cid, payload, mime, labels, meta) ==
    [correlation_id |-> cid, is_final |-> TRUE, error |-> "NONE", message |-> "",
     result |-> <<payload>>, result_mime |-> mime, labels |-> labels, meta |-> meta]

\* An error response that keeps a result beside its error.
Failure_WithResult(cid, code, message) ==
    [correlation_id |-> cid, is_final |-> TRUE, error |-> code, message |-> message,
     result |-> <<message>>, result_mime |-> "text/plain", labels |-> <<>>, meta |-> <<>>]

Failure(cid, code, message) ==
    [correlation_id |-> cid, is_final |-> TRUE, error |-> code, message |-> message,
     result |-> <<>>, result_mime |-> "", labels |-> <<>>, meta |-> <<>>]

EmbeddingMime == "application/json;schema=embedding_v1"
LabelsMime == "application/json;schema=labels_v1"

\* A dict with the one key k.
Dict(k, v) == [x \in {k} |-> v]

\* d[k] = v, and d.update({k: v})
Updated(d, k, v) == [x \in DOMAIN d \cup {k} |-> IF x = k THEN v ELSE d[x]]

\* The outcome of a handler call: the (result, mime, meta) it returns or the
\* exception it raises.
Returns(payload, mime, labels, meta) ==
    [exc |-> "", payload |-> payload, mime |-> mime, labels |-> labels, meta |-> meta]
Raises(exc) == [exc |-> exc, payload |-> <<>>, mime |-> "", labels |-> <<>>, meta |-> <<>>]

----------------------------------------------------------------------------
\* f"cid-{_now_ms()}"
GeneratedCid(ms) == "cid-" \o ToString(ms)

\* cid = req.correlation_id or f"cid-{_now_ms()}"
CidOf(req, ms) == IF req.correlation_id # "" THEN req.correlation_id ELSE GeneratedCid(ms)

----------------------------------------------------------------------------
(* Chunk reassembly.  A dict is a function whose domain is its key set.    *)

\* A buffer that holds the latest fragment alone.
Extended_LastOnly(cid, req, bufs) == req.payload

\* buffers.setdefault(cid, bytearray()) followed by buf.extend(req.payload)
Extended(cid, req, bufs) ==
    (IF cid \in DOMAIN bufs THEN bufs[cid] ELSE <<>>) \o req.payload

\* A buffer entry that outlives the request that completed it.
Deleted_Kept(cid, bufs) == bufs

\* del buffers[cid]
Deleted(cid, bufs) == [k \in DOMAIN bufs \ {cid} |-> bufs[k]]

\* A buffer map with room for one upload.
Stored_Alone(cid, buf, bufs) == [k \in {cid} |-> buf]

\* buffers[cid] = buf
Stored(cid, buf, bufs) == [k \in DOMAIN bufs \cup {cid} |-> IF k = cid THEN buf ELSE bufs[k]]

\* The chunked path shared by both _assemble methods: append, then complete
\* when req.total and req.seq + 1 == req.total.
Buffered(cid, req, bufs) ==
    LET buf == Extended(cid, req, bufs) IN
    IF req.total # 0 /\ req.seq + 1 = req.total
    THEN [payload |-> buf, ready |-> TRUE, buffers |-> Deleted(cid, bufs)]
    ELSE [payload |-> <<>>, ready |-> FALSE, buffers |-> Stored(cid, buf, bufs)]

\* CLIPService._assemble: the message is complete in itself when total <= 1.
CLIPService_assemble(cid, req, bufs) ==
    IF req.total <= 1
    THEN [payload |-> req.payload, ready |-> TRUE, buffers |-> bufs]
    ELSE Buffered(cid, req, bufs)

\* BioClipService._assemble: the message is complete in itself only when
\* total, seq and offset are all zero.
BioClipService_assemble(cid, req, bufs) ==
    IF req.total = 0 /\ req.seq = 0 /\ req.offset = 0
    THEN [payload |-> req.payload, ready |-> TRUE, buffers |-> bufs]
    ELSE Buffered(cid, req, bufs)

Assemble(service, cid, req, bufs) ==
    IF service = "clip" THEN CLIPService_assemble(cid, req, bufs)
    ELSE BioClipService_assemble(cid, req, bufs)

----------------------------------------------------------------------------
(* The models.  A backend is opaque: it ranks its labels for an image it   *)
(* can decode and raises for one it cannot.  What the services do with the *)
(* ranking (how many labels they ask for, how many they keep) is modelled. *)

\* The largest topk a client asks for: one more than there are labels.
MaxTopk == NumLabels + 1

\* The numerals a client puts in meta["topk"], and int() of them.
Numerals == {ToString(k) : k \in 0..MaxTopk}
IntOf(s) == CHOOSE k \in 0..MaxTopk : ToString(k) = s

\* int(meta.get("topk", default)) does not raise: a key left out gives the
\* default.
ParsesInt(topk) == topk = "" \/ topk \in Numerals

\* int(meta.get("topk", default))
TopK(topk, default) == IF topk = "" THEN default ELSE IntOf(topk)

Min(a, b) == IF a <= b THEN a ELSE b

\* The n best labels of a model for an image, best first: a label is named
\* by its model and its rank.
Ranked(model, n) == [i \in 1..n |-> <<model, ToString(i)>>]

\* sims.topk(k) raises when k is more than the elements of sims.
TopkRaises(k) == k > NumLabels

\* CLIPModelManager.classify_image: sims.topk(min(top_k, sims.numel()))
CLIPModelManager_classify_image(top_k) == Ranked("clip", Min(top_k, NumLabels))

\* BioCLIPModelManager.classify_image, top_k: int = 3
BioCLIPModelManager_classify_image(top_k) == Ranked("bioclip", Min(top_k, NumLabels))

\* CLIPModelManager.scene_prompts, word by word.
scene_prompts ==
    << <<"a", "photo", "of", "an", "animal">>,
       <<"a", "photo", "of", "a", "bird">>,
       <<"a", "photo", "of", "an", "insect">>,
       <<"a", "photo", "of", "a", "human-made", "object">>,
       <<"a", "photo", "of", "a", "landscape">>,
       <<"an", "abstract", "painting">> >>

\* The prompt the CLIP model finds closest to an image: a function of the
\* image alone.
BestScene(payload) == (payload[1] % Len(scene_prompts)) + 1

\* CLIPModelManager.classify_scene
CLIPModelManager_classify_scene(payload) == scene_prompts[BestScene(payload)]

\* `word in scene_label`
Contains(label, word) == \E i \in 1..Len(label) : label[i] = word

\* A policy that sends every image to BioCLIP.
is_animal_like_Always(scene_label) == TRUE

\* is_animal_like = ("animal" in scene_label) or ("bird" in scene_label)
\*                  or ("insect" in scene_label)
is_animal_like(scene_label) ==
    Contains(scene_label, "animal") \/ Contains(scene_label, "bird")
        \/ Contains(scene_label, "insect")

----------------------------------------------------------------------------
(* Task handlers of CLIPService and BioClipService.                        *)

\* CLIPService._handle_embed: payload.decode("utf-8"), then encode_text
CLIPService_handle_embed(payload) ==
    IF Decodes(payload)
    THEN Returns(payload, EmbeddingMime, <<>>, Dict("dim", ToString(EmbeddingDim)))
    ELSE Raises("UnicodeDecodeError")

\* CLIPService._handle_classify: int(topk), then classify_image opens the
\* image
CLIPService_handle_classify(payload, meta) ==
    IF ~ParsesInt(meta.topk) THEN Raises("ValueError")
    ELSE IF Decodes(payload)
    THEN LET scores == CLIPModelManager_classify_image(TopK(meta.topk, 5)) IN
         Returns(payload, LabelsMime, scores, Dict("labels_count", ToString(Len(scores))))
    ELSE Raises("UnidentifiedImageError")

\* CLIPService._handle_classify_scene: classify_scene opens the image
CLIPService_handle_classify_scene(payload) ==
    IF Decodes(payload)
    THEN Returns(payload, LabelsMime, <<CLIPModelManager_classify_scene(payload)>>,
                 Dict("labels_count", "1"))
    ELSE Raises("UnidentifiedImageError")

\* BioClipService._handle_embed: the MIME check, the decode, and then
\* encode_text([text])[0].tolist() is a float, so len(vec) raises.
BioClipService_handle_embed(payload_mime, payload) ==
    IF payload_mime # "text/plain" THEN Raises("ValueError")
    ELSE IF ~Decodes(payload) THEN Raises("UnicodeDecodeError")
    ELSE Raises("TypeError")

\* A classify that asks the model for as many labels as the client wants.
Kept_Asked(topk) == BioCLIPModelManager_classify_image(topk)

\* self.model.classify_image(payload)[:topk]: the model is asked for its
\* default number of labels and the list is cut to topk.
Kept(topk) ==
    LET pairs == BioCLIPModelManager_classify_image(3) IN
    SubSeq(pairs, 1, Min(topk, Len(pairs)))

\* BioClipService._handle_classify: the MIME check, the namespace check,
\* int(topk), then classify_image
BioClipService_handle_classify(payload_mime, payload, meta) ==
    IF payload_mime # "image/jpeg" THEN Raises("ValueError")
    ELSE IF meta.namespace \notin {"", "bioatlas"} THEN Raises("ValueError")
    ELSE IF ~ParsesInt(meta.topk) THEN Raises("ValueError")
    ELSE IF ~Decodes(payload) THEN Raises("UnidentifiedImageError")
    ELSE LET pairs == Kept(TopK(meta.topk, 5)) IN
         Returns(payload, LabelsMime, pairs, Dict("labels_count", ToString(Len(pairs))))

\* A routing chain without the classify_scene branch.
RoutedTasks_Common(service) == {"embed", "classify"}

\* The task names each Infer routes to a handler.
RoutedTasks(service) ==
    IF service = "clip" THEN {"embed", "classify", "classify_scene"}
    ELSE {"embed", "classify"}

\* The routing if/elif chain of Infer.
Route(service, req, payload) ==
    IF service = "clip"
    THEN (IF req.task = "embed" THEN CLIPService_handle_embed(payload)
          ELSE IF req.task = "classify" THEN CLIPService_handle_classify(payload, req.meta)
          ELSE CLIPService_handle_classify_scene(payload))
    ELSE (IF req.task = "embed" THEN BioClipService_handle_embed(req.payload_mime, payload)
          ELSE BioClipService_handle_classify(req.payload_mime, payload, req.meta))

\* An except clause that re-raises whatever it caught.
Propagates_Any(service, exc) == exc # ""

\* The except clauses of Infer: BioClipService re-raises grpc.RpcError,
\* everything else derived from Exception becomes an INTERNAL response.
Propagates(service, exc) == service = "bioclip" /\ exc = "RpcError"

\* A response that reports the handler's counters alone.
Latency_Left(meta, lat) == meta

\* meta = dict(extra_meta or {}); meta["lat_ms"] = str(_now_ms() - t0)
Latency(meta, lat) == Updated(meta, "lat_ms", ToString(lat))

\* One iteration of the Infer loop once _assemble said ready: the responses
\* it yields, the exception it caught, whether a handler ran and whether the
\* exception left the generator.
\* `lat` is _now_ms() - t0 as the response is built.
LoopBody(service, cid, req, payload, lat) ==
    IF req.task \notin RoutedTasks(service)
    THEN [out |-> <<Failure(cid, "INVALID_ARGUMENT", "Unknown task")>>,
          exc |-> "", unknown |-> TRUE, handler |-> 0, crashed |-> FALSE]
    ELSE LET r == Route(service, req, payload) IN
         IF r.exc = ""
         THEN [out |-> <<Success(cid, r.payload, r.mime, r.labels,
                                 Latency(r.meta, lat))>>,
               exc |-> "", unknown |-> FALSE, handler |-> 1, crashed |-> FALSE]
         ELSE IF Propagates(service, r.exc)
         THEN [out |-> <<>>, exc |-> r.exc, unknown |-> FALSE, handler |-> 1, crashed |-> TRUE]
         ELSE [out |-> <<Failure(cid, "INTERNAL", r.exc)>>,
               exc |-> r.exc, unknown |-> FALSE, handler |-> 1, crashed |-> FALSE]

NotReady == [out |-> <<>>, exc |-> "", unknown |-> FALSE, handler |-> 0, crashed |-> FALSE]

----------------------------------------------------------------------------
(* UnifiedMLService: the task handlers and _process_batch.                 *)

\* The handlers that work through their group request by request, yielding
\* each response as it is built (a generator).
PerItemTasks == {"clip_classify", "bioclip_classify", "smart_classify",
                 "clip_embed", "bioclip_embed"}
\* The handlers that preprocess the whole group before they yield anything.
BatchedTasks == {"clip_image_embed", "bioclip_image_embed"}
\* getattr(self, f"_handle_{task_name}", None) finds exactly these.
UnifiedTasks == PerItemTasks \cup BatchedTasks

ResultMime(task) ==
    IF task \in {"clip_classify", "bioclip_classify", "smart_classify"}
    THEN LabelsMime ELSE EmbeddingMime

DecodeError(task) ==
    IF task \in {"clip_embed", "bioclip_embed"} THEN "UnicodeDecodeError"
    ELSE "UnidentifiedImageError"

\* d.update(e)
Merged(d, e) == [x \in DOMAIN d \cup DOMAIN e |-> IF x \in DOMAIN e THEN e[x] ELSE d[x]]

\* _build_label_response: labels_count, and the caller's meta over it.
UnifiedMLService_build_label_response(cid, payload, scores, meta) ==
    Success(cid, payload, LabelsMime, scores,
            Merged(Dict("labels_count", ToString(Len(scores))), meta))

\* _build_embed_response
UnifiedMLService_build_embed_response(cid, payload) ==
    Success(cid, payload, EmbeddingMime, <<>>, Dict("dim", ToString(EmbeddingDim)))

\* Whether smart_classify goes on to BioCLIP for a request: stage one picks
\* the scene prompt closest to the image.
SecondStage(req) == is_animal_like(scene_prompts[BestScene(req.payload)])

\* The requests for which a handler reads meta["topk"], and the default it
\* falls back to.
ReadsTopk(task, req) ==
    task \in {"clip_classify", "bioclip_classify"}
        \/ (task = "smart_classify" /\ SecondStage(req))
DefaultTopk(task) == IF task = "clip_classify" THEN 5 ELSE 3

\* What a per-item handler raises while it works on one request: the
\* payload is decoded first, then the handlers that rank labels call
\* int(req.meta.get("topk", ...)) and sims.topk(top_k).
ItemError(task, req) ==
    IF ~Decodes(req.payload) THEN DecodeError(task)
    ELSE IF ~ReadsTopk(task, req) THEN ""
    ELSE IF ~ParsesInt(req.meta.topk) THEN "ValueError"
    ELSE IF TopkRaises(TopK(req.meta.topk, DefaultTopk(task))) THEN "RuntimeError"
    ELSE ""

\* The response a per-item handler yields for a request it gets through.
ItemResponse(task, req) ==
    LET cid == req.correlation_id
        top_k == TopK(req.meta.topk, DefaultTopk(task))
    IN  IF task \in {"clip_embed", "bioclip_embed"}
        THEN UnifiedMLService_build_embed_response(cid, req.payload)
        ELSE IF task = "clip_classify"
        THEN UnifiedMLService_build_label_response(cid, req.payload,
                                                   Ranked("clip", top_k), <<>>)
        ELSE IF task = "bioclip_classify"
        THEN UnifiedMLService_build_label_response(cid, req.payload,
                                                   Ranked("bioclip", top_k), <<>>)
        ELSE IF ~SecondStage(req)
        THEN UnifiedMLService_build_label_response(
                 cid, req.payload, <<scene_prompts[BestScene(req.payload)]>>,
                 Dict("source", "scene_classification"))
        ELSE UnifiedMLService_build_label_response(
                 cid, req.payload, Ranked("bioclip", top_k),
                 Dict("source", "bioclip_classification"))

\* A per-item handler consumed by `for response in handler(requests)`: the
\* responses it yielded before it returned or raised, and the exception.
RECURSIVE PerItemHandler(_, _)
PerItemHandler(task, requests) ==
    IF requests = <<>> THEN [yielded |-> <<>>, exc |-> ""]
    ELSE LET req == Head(requests) IN
         IF ItemError(task, req) # "" THEN [yielded |-> <<>>, exc |-> ItemError(task, req)]
         ELSE LET rest == PerItemHandler(task, Tail(requests)) IN
              [yielded |-> <<ItemResponse(task, req)>> \o rest.yielded,
               exc |-> rest.exc]

\* A batched handler: preprocess_image_batch decodes every payload first.
BatchedHandler(task, requests) ==
    IF \E i \in 1..Len(requests) : ~Decodes(requests[i].payload)
    THEN [yielded |-> <<>>, exc |-> DecodeError(task)]
    ELSE [yielded |-> [i \in 1..Len(requests) |->
                         UnifiedMLService_build_embed_response(
                             requests[i].correlation_id, requests[i].payload)],
          exc |-> ""]

Handler(task, requests) ==
    IF task \in PerItemTasks THEN PerItemHandler(task, requests)
    ELSE BatchedHandler(task, requests)

\* An except clause that logs and yields nothing.
InternalErrors_LogOnly(requests, exc) == <<>>

\* The except clause of _process_batch: one INTERNAL response per request of
\* the group.
InternalErrors(requests, exc) ==
    [i \in 1..Len(requests) |-> Failure(requests[i].correlation_id, "INTERNAL", exc)]

\* An unknown task reported as a failure of the server.
UnknownTask_Internal(requests) ==
    [i \in 1..Len(requests) |->
        Failure(requests[i].correlation_id, "INTERNAL", "Unknown task")]

\* The else branch of _process_batch: no handler of that name.
UnknownTask(requests) ==
    [i \in 1..Len(requests) |->
        Failure(requests[i].correlation_id, "INVALID_ARGUMENT", "Unknown task")]

\* One iteration of `for task_name, requests in tasks.items()`.
GroupResponses(task_name, requests) ==
    IF task_name \in UnifiedTasks
    THEN LET h == Handler(task_name, requests) IN
         IF h.exc = "" THEN h.yielded
         ELSE h.yielded \o InternalErrors(requests, h.exc)
    ELSE UnknownTask(requests)

\* tasks = defaultdict(list); tasks[req.task].append(req): the keys in the
\* order of their first appearance, each with its requests in batch order.
\* A grouping that opens a group at every request.
TaskNames_PerRequest(reqs) == [i \in 1..Len(reqs) |-> reqs[i].task]

RECURSIVE TaskNames(_)
TaskNames(reqs) ==
    IF reqs = <<>> THEN <<>>
    ELSE LET t == Head(reqs).task IN
         <<t>> \o TaskNames(SelectSeq(Tail(reqs), LAMBDA r : r.task # t))

\* A group that lists its requests latest first.
Group_Reversed(reqs, task_name) ==
    LET g == SelectSeq(reqs, LAMBDA r : r.task = task_name) IN
    [i \in 1..Len(g) |-> g[Len(g) + 1 - i]]

Group(reqs, task_name) == SelectSeq(reqs, LAMBDA r : r.task = task_name)

\* _process_batch, as the sequence of its groups' outputs.
Segments(reqs) ==
    LET names == TaskNames(reqs) IN
    [i \in 1..Len(names) |->
        [task |-> names[i],
         requests |-> Group(reqs, names[i]),
         out |-> GroupResponses(names[i], Group(reqs, names[i]))]]

\* A loop over the groups that starts from the one opened last.
RECURSIVE Flatten_LastFirst(_)
Flatten_LastFirst(segs) ==
    IF segs = <<>> THEN <<>> ELSE Flatten_LastFirst(Tail(segs)) \o Head(segs).out

RECURSIVE Flatten(_)
Flatten(segs) == IF segs = <<>> THEN <<>> ELSE Head(segs).out \o Flatten(Tail(segs))

\* _process_batch: every response it yields, in order.
UnifiedMLService_process_batch(reqs) == Flatten(Segments(reqs))

\* The handlers _process_batch invokes: one per group with a known task.
HandlerCalls(reqs) ==
    Cardinality({i \in 1..Len(TaskNames(reqs)) : TaskNames(reqs)[i] \in UnifiedTasks})

\* Whether a group of the batch had no handler or a handler that raised.
FailedGroup(seg) ==
    seg.task \notin UnifiedTasks \/ Handler(seg.task, seg.requests).exc # ""

BatchFailed(reqs) == \E i \in 1..Len(Segments(reqs)) : FailedGroup(Segments(reqs)[i])

----------------------------------------------------------------------------
(* The client: the messages a stream may carry.                            *)

Message(cid, task, payload, mime, seq, total, offset) ==
    [correlation_id |-> cid, task |-> task, payload |-> payload, payload_mime |-> mime,
     meta |-> NoMeta, seq |-> seq, total |-> total, offset |-> offset]

\* The chunk coordinates <<seq, total, offset>> a client may send: none,
\* every fragment of every total from 1 to MaxTotal, a seq past its total,
\* and an offset alone.
Coordinates ==
    {<<s, n, 0>> : s \in 0..(MaxTotal - 1), n \in 2..MaxTotal}
    \cup {<<0, 0, 0>>, <<0, 1, 0>>, <<1, 1, 0>>, <<0, 0, 1>>}

\* What a request asks for: a task with a payload the backend decodes, the
\* same task with one it rejects, and a task nothing handles.
Asks(tasks, unknown) ==
    {<<t, p>> : t \in tasks, p \in Payloads} \cup {<<unknown, <<65>> >>}

\* Short streams to CLIPService and BioClipService: any chunk coordinates.
ChunkedMsgs ==
    {Message(c, a[1], a[2], "image/jpeg", k[1], k[2], k[3]) :
        c \in Cids, a \in Asks({"classify"}, "bogus"), k \in Coordinates}

\* Short streams to UnifiedMLService: any task, no chunk coordinates.
UnifiedCids == {"c1", "c2"}
UnifiedMsgs ==
    {Message(c, a[1], a[2], "image/jpeg", 0, 0, 0) :
        c \in UnifiedCids, a \in Asks({"clip_classify", "clip_image_embed"}, "bogus")}

\* Streams of unchunked requests to CLIPService and BioClipService: every
\* task with every MIME class, namespace and topk.
\* Some of them leave the correlation id out.
MetaMsgs ==
    {[Message(c, a[1], p, a[2], 0, 0, 0) EXCEPT !.meta = [namespace |-> ns, topk |-> k]] :
        c \in {"c1", ""},
        a \in {<<"embed", "text/plain">>, <<"classify", "text/plain">>,
                <<"classify", "image/jpeg">>},
        p \in Payloads, ns \in {"bioatlas", "other"}, k \in {"5", "x"}}

\* The like for UnifiedMLService.
UnifiedMetaMsgs ==
    {[Message(c, "clip_classify", p, "image/jpeg", 0, 0, 0) EXCEPT !.meta.topk = k] :
        c \in {"c1", ""}, p \in Payloads, k \in {"5", "x"}}

\* Long streams to UnifiedMLService: the default request, and a few others.
DefaultMsg == Message("c1", "clip_embed", <<65>>, "text/plain", 0, 0, 0)
OddMsgs ==
    {Message("c2", "clip_embed", <<255>>, "text/plain", 0, 0, 0),
     Message("c2", "bogus", <<65>>, "text/plain", 0, 0, 0),
     Message("c3", "clip_image_embed", <<65>>, "image/jpeg", 0, 2, 0),
     Message("c3", "clip_image_embed", <<65>>, "image/jpeg", 1, 2, 0)}

\* Step streams to UnifiedMLService: the client numbers its requests (r1,
\* r2, ...); most ask for a text embedding, a few for something else.
StepDefault == <<"clip_embed", <<65>> >>
StepMsgs ==
    {Message("r" \o ToString(nread + 1), a[1], a[2], "text/plain", 0, 0, 0) :
        a \in {StepDefault} \cup (IF nodd < MaxOdd
                                  THEN Asks({"clip_embed", "clip_image_embed"}, "bogus")
                                  ELSE {})}

\* Frag streams to CLIPService and BioClipService: the fragments of one
\* upload, each with a task, a MIME type and a topk of its own.
FragMsgs ==
    {[Message("c1", a[1], <<65>>, a[2], s, MaxTotal, 0) EXCEPT !.meta.topk = a[3]] :
        s \in 0..(MaxTotal - 1),
        a \in {<<t[1], t[2], k>> : t \in {<<"embed", "text/plain">>,
                                         <<"classify", "image/jpeg">>,
                                         <<"classify", "text/plain">>},
                                  k \in {"2", "x"}}
              \cup {<<"bogus", "image/jpeg", "2">>}}

\* What a client puts in meta["topk"]: nothing, every numeral from 1 to
\* MaxTopk, and a word.
Topks == {""} \cup (Numerals \ {"0"}) \cup {"x"}

\* Answer streams to CLIPService and BioClipService: unchunked requests for
\* every task, classify with every topk.
AnswerMsgs ==
    {[Message("c1", "classify", <<65>>, "image/jpeg", 0, 0, 0) EXCEPT !.meta.topk = k] :
        k \in Topks}
    \cup {Message("c1", "classify_scene", p, "image/jpeg", 0, 0, 0) : p \in {<<65>>, <<66>>}}
    \cup {Message("c1", "embed", <<65>>, "text/plain", 0, 0, 0)}

\* Answer streams to UnifiedMLService: the classifications with every topk,
\* smart_classify with an image of each kind, and an embedding.
UnifiedAnswerMsgs ==
    {[Message("c1", t, <<65>>, "image/jpeg", 0, 0, 0) EXCEPT !.meta.topk = k] :
        t \in {"clip_classify", "bioclip_classify"}, k \in Topks}
    \cup {[Message("c1", "smart_classify", p, "image/jpeg", 0, 0, 0) EXCEPT !.meta.topk = k] :
             p \in {<<65>>, <<66>>}, k \in Topks}
    \cup {Message("c1", "clip_embed", <<65>>, "text/plain", 0, 0, 0)}

\* Anon streams to CLIPService and BioClipService: requests without a
\* correlation id, one after the other, a chunked one fragment by fragment
\* in order.
AnonMsgs ==
    LET last == IF received = <<>> THEN NoMsg ELSE received[Len(received)]
    IN  IF last.total > 1 /\ last.seq + 1 < last.total
        THEN {Message("", last.task, p, last.payload_mime, last.seq + 1, last.total, 0) :
                 p \in Payloads}
        ELSE {Message("", "embed", p, "text/plain", 0, n, 0) :
                 p \in Payloads, n \in {0} \cup 2..MaxTotal}

\* _build_capability of each servicer: the names of its IOTask entries, in
\* the order of the list.
BuildCapability(service) ==
    IF service = "unified"
    THEN [service_name |-> "unified-ml-service",
          tasks |-> <<"clip_classify", "clip_embed", "bioclip_classify", "bioclip_embed",
                      "smart_classify", "clip_image_embed", "bioclip_image_embed">>]
    ELSE IF service = "clip"
    THEN [service_name |-> "clip-general",
          tasks |-> <<"embed", "classify", "classify_scene">>]
    ELSE [service_name |-> "clip-bioclip", tasks |-> <<"embed", "classify">>]

\* The task names GetCapabilities and StreamCapabilities advertise.
Advertised(service) ==
    LET tasks == BuildCapability(service).tasks IN {tasks[i] : i \in 1..Len(tasks)}

\* Caps streams: the client numbers its requests and asks for every task
\* some servicer advertises, for a task none does, and for none at all.
CapsMsgs ==
    {Message("r" \o ToString(nread + 1), t, <<65>>, mime, 0, 0, 0) :
        t \in UNION {Advertised(s) : s \in {"unified", "clip", "bioclip"}} \cup {"bogus", ""},
        mime \in {"image/jpeg", "text/plain"}}

Inbound ==
    IF mode = "frag" THEN FragMsgs
    ELSE IF mode = "caps" THEN CapsMsgs
    ELSE IF mode = "anon" THEN AnonMsgs
    ELSE IF mode = "answer" THEN (IF svc = "unified" THEN UnifiedAnswerMsgs ELSE AnswerMsgs)
    ELSE IF mode = "meta" THEN (IF svc = "unified" THEN UnifiedMetaMsgs ELSE MetaMsgs)
    ELSE IF svc # "unified" THEN ChunkedMsgs
    ELSE IF mode = "short" THEN UnifiedMsgs
    ELSE IF mode = "step" THEN StepMsgs
    ELSE {DefaultMsg} \cup (IF nodd < MaxOdd THEN OddMsgs ELSE {})

MaxRead ==
    IF mode = "long" THEN MaxLong
    ELSE IF mode = "answer" THEN MaxAnswer
    ELSE IF mode = "step" THEN MaxStep
    ELSE IF mode = "frag" THEN MaxTotal
    ELSE IF mode = "anon" THEN MaxAnon
    ELSE IF mode = "caps" THEN MaxCaps
    ELSE MaxMsgs

\* By its fields a message completes a logical request when it is not
\* chunked (total <= 1) or is the last fragment (seq + 1 = total).
CompletesRequest(m) == m.total <= 1 \/ m.seq + 1 = m.total
NonFinalFragment(m) == m.total > 1 /\ m.seq + 1 < m.total
NoCoordinates(m) == m.total = 0 /\ m.seq = 0 /\ m.offset = 0

----------------------------------------------------------------------------
(* The client's view of an upload: the fragments of one correlation id,    *)
(* sent with seq = 0..total-1 in order, starting when the stream holds no  *)
(* bytes for that id.                                                      *)

NoUpload == [open |-> FALSE, next |-> 0, total |-> 0, data |-> <<>>]
NoExpect == [kind |-> "none", data |-> <<>>]

NextTrack(trk, m, bufs) ==
    LET c == m.correlation_id
        t == trk[c]
    IN  IF NoCoordinates(m) \/ c \notin DOMAIN trk
        THEN [track |-> trk, expect |-> NoExpect]
        ELSE IF m.total > 1 /\ m.seq = 0 /\ c \notin DOMAIN bufs
        THEN [track |-> [trk EXCEPT ![c] = [open |-> TRUE, next |-> 1,
                                            total |-> m.total, data |-> m.payload]],
              expect |-> [kind |-> "partial", data |-> <<>>]]
        ELSE IF m.total > 1 /\ t.open /\ m.seq = t.next /\ m.total = t.total
        THEN (IF m.seq + 1 = m.total
              THEN [track |-> [trk EXCEPT ![c] = NoUpload],
                    expect |-> [kind |-> "complete", data |-> t.data \o m.payload]]
              ELSE [track |-> [trk EXCEPT ![c] = [t EXCEPT !.next = @ + 1,
                                                           !.data = @ \o m.payload]],
                    expect |-> [kind |-> "partial", data |-> <<>>]])
        ELSE [track |-> [trk EXCEPT ![c] = NoUpload], expect |-> NoExpect]

\* The requests of `reqs` left without a response once each response of
\* `out` is given to the first request that carries its correlation id.
RemoveFirst(reqs, cid) ==
    LET hits == {i \in 1..Len(reqs) : reqs[i].correlation_id = cid} IN
    IF hits = {} THEN reqs
    ELSE LET i == CHOOSE h \in hits : \A g \in hits : h <= g IN
         SubSeq(reqs, 1, i - 1) \o SubSeq(reqs, i + 1, Len(reqs))

RECURSIVE Unanswered(_, _)
Unanswered(reqs, out) ==
    IF out = <<>> THEN reqs
    ELSE Unanswered(RemoveFirst(reqs, Head(out).correlation_id), Tail(out))

----------------------------------------------------------------------------
(* The stream.                                                             *)

\* An entry test that looks at the CLIP model alone.
ModelReady_ClipOnly(service, flags) ==
    IF service = "bioclip" THEN flags.bioclip ELSE flags.clip

\* The test at the top of each Infer.
ModelReady(service, flags) ==
    IF service = "unified" THEN flags.clip /\ flags.bioclip
    ELSE IF service = "clip" THEN flags.clip
    ELSE flags.bioclip

(* The model managers.  A manager holds its model, its labels and their   *)
(* text embeddings; initialize() loads them statement by statement, and    *)
(* any of the loads may raise.  The flag is_initialized of manager m is     *)
(* is_initialized[m].                                                      *)

Managers == {"clip", "bioclip"}

\* __init__: nothing loaded, no initialize() running.
NewManager ==
    [at |-> 0, outcome |-> "", calls |-> 0, _model |-> "None", labels |-> <<>>,
     text_embeddings |-> "None", scene_prompt_embeddings |-> "None", _load_time |-> -1]

\* The labels a manager loads: the names its model ranks.
LabelNames(m) == [i \in 1..NumLabels |-> <<m, ToString(i)>>]

\* initialize(), after its guard: the statements that change the manager,
\* in the order of the code.
Body(m) ==
    IF m = "clip"
    THEN <<"create_model", "load_label_names", "load_or_compute_text_embeddings",
           "initialize_scene_embeddings", "set_initialized">>
    ELSE <<"create_model", "set_initialized", "load_label_names",
           "load_or_compute_text_embeddings">>

\* initialize() of manager m stands before the statement `stmt`.
At(m, stmt) ==
    /\ managers[m].at \in 1..Len(Body(m))
    /\ Body(m)[managers[m].at] = stmt

\* The manager once the statement it stands before has run, changed by `f`:
\* initialize() moves on, and returns after its last statement.
Passed(m, f) ==
    IF managers[m].at = Len(Body(m))
    THEN [f EXCEPT !.at = 0, !.outcome = "returned"]
    ELSE [f EXCEPT !.at = @ + 1]

\* The manager once the statement it stands before has raised: the
\* exception leaves initialize() with the fields as they are.
Raised(m) == [managers[m] EXCEPT !.at = 0, !.outcome = "raised"]

\* A guard that never returns early.
AlreadyInitialized_Never(m, flags) == FALSE

\* if self.is_initialized: return
AlreadyInitialized(m, flags) == flags[m]

\* initialize() is called on manager m, by any thread, while no other call
\* of it runs; `calls` counts the calls.
Initialize(m) ==
    /\ managers[m].at = 0
    /\ managers[m].calls < MaxCalls
    /\ managers' = [managers EXCEPT ![m] =
                       IF AlreadyInitialized(m, is_initialized)
                       THEN [@ EXCEPT !.outcome = "returned", !.calls = @ + 1]
                       ELSE [@ EXCEPT !.at = 1, !.outcome = "", !.calls = @ + 1]]
    /\ UNCHANGED <<single, streams, server, pml>>

\* open_clip.create_model_and_transforms, get_tokenizer, model.eval().to:
\* the weights load, or the load raises.
CreateModel(m) ==
    /\ At(m, "create_model")
    /\ \/ managers' = [managers EXCEPT ![m] = Passed(m, [@ EXCEPT !._model = "loaded"])]
       \/ managers' = [managers EXCEPT ![m] = Raised(m)]
    /\ UNCHANGED <<single, streams, server, pml>>

\* _load_label_names: the names are read from the cached file, or the
\* download or the read raises.
LoadLabelNames(m) ==
    /\ At(m, "load_label_names")
    /\ \/ managers' = [managers EXCEPT ![m] = Passed(m, [@ EXCEPT !.labels = LabelNames(m)])]
       \/ managers' = [managers EXCEPT ![m] = Raised(m)]
    /\ UNCHANGED <<single, streams, server, pml>>

\* _load_or_compute_text_embeddings: from the cache or from the model, or
\* reading, computing or saving raises.
LoadOrComputeTextEmbeddings(m) ==
    /\ At(m, "load_or_compute_text_embeddings")
    /\ \/ managers' = [managers EXCEPT ![m] =
                          Passed(m, [@ EXCEPT !.text_embeddings = "loaded"])]
       \/ managers' = [managers EXCEPT ![m] = Raised(m)]
    /\ UNCHANGED <<single, streams, server, pml>>

\* CLIPModelManager._initialize_scene_embeddings: a failure is logged and
\* leaves the scene embeddings None; it does not raise.
InitializeSceneEmbeddings(m) ==
    /\ At(m, "initialize_scene_embeddings")
    /\ \E e \in {"loaded", "None"} :
           managers' = [managers EXCEPT ![m] =
                           Passed(m, [@ EXCEPT !.scene_prompt_embeddings = e])]
    /\ UNCHANGED <<single, streams, server, pml>>

\* self.is_initialized = True; self._load_time = time.time() - t0
SetInitialized(m) ==
    /\ At(m, "set_initialized")
    /\ is_initialized' = [is_initialized EXCEPT ![m] = TRUE]
    /\ \E t \in 0..MaxLoadTime :
           managers' = [managers EXCEPT ![m] = Passed(m, [@ EXCEPT !._load_time = t])]
    /\ UNCHANGED <<svc, mode, pc, status, inbound, buffers, batch, lastMsg,
                   lastAsm, lastBatch, lastOut, lastExc, nread, nodd, nresp, nhandler,
                   ndispatch, ncomplete, nfail, track, expect, unanswered, now, pending,
                   received, dispatched, streams, server, pml>>

\* The statements of a running initialize().
InitializeStep(m) ==
    \/ CreateModel(m)
    \/ LoadLabelNames(m)
    \/ LoadOrComputeTextEmbeddings(m)
    \/ InitializeSceneEmbeddings(m)
    \/ SetInitialized(m)

\* The pml server is a program of its own: the servicers of lumen-clip run
\* without it.
NoServicer == [constructed |-> FALSE, initialization |-> "", services |-> <<>>]
NoCall == [rpc |-> "", request |-> <<>>, code |-> "OK", response |-> <<>>, raised |-> FALSE]
NoPml ==
    /\ servicer = NoServicer
    /\ call = NoCall

\* serve() before it runs, and after sys.exit or the start of the server.
NoServer == [at |-> "", listening |-> FALSE, exit |-> -1]

\* The stream models leave managers and server out: the flags Infer tests
\* are given, whatever set them.
Offstream ==
    /\ managers = [m \in Managers |-> NewManager]
    /\ server = NoServer
    /\ NoPml

----------------------------------------------------------------------------
FreshStream ==
    /\ pc = "start"
    /\ status = "OK"
    /\ inbound = "open"
    /\ buffers = <<>>
    /\ batch = <<>>
    /\ lastMsg = NoMsg
    /\ lastAsm = [payload |-> <<>>, ready |-> FALSE]
    /\ lastBatch = <<>>
    /\ lastOut = <<>>
    /\ lastExc = ""
    /\ nread = 0
    /\ nodd = 0
    /\ nresp = 0
    /\ nhandler = 0
    /\ ndispatch = 0
    /\ ncomplete = 0
    /\ nfail = 0
    /\ track = [c \in Cids |-> NoUpload]
    /\ expect = NoExpect
    /\ unanswered = <<>>
    /\ now = 0
    /\ pending = <<>>
    /\ received = <<>>
    /\ dispatched = <<>>

\* The servicer as serve() may have left it, and the locals of Infer
\* before its loop.
Fresh ==
    /\ is_initialized \in [clip : BOOLEAN, bioclip : BOOLEAN]
    /\ svc = "clip" => ~is_initialized.bioclip
    /\ svc = "bioclip" => ~is_initialized.clip
    /\ FreshStream
    /\ streams = <<>>
    /\ Offstream

Init ==
    /\ svc \in {"unified", "clip", "bioclip"}
    /\ mode \in {"short", "long"}
    /\ mode = "long" => svc = "unified"
    /\ Fresh

\* Streams that exercise the per-request validation of the handlers.
MetaInit ==
    /\ svc \in {"unified", "clip", "bioclip"}
    /\ mode = "meta"
    /\ Fresh

\* Infer, up to its loop: context.abort raises and ends the RPC.
InferEntry ==
    /\ pc = "start"
    /\ IF ModelReady(svc, is_initialized)
       THEN pc' = "await" /\ status' = status
       ELSE pc' = "aborted" /\ status' = "FAILED_PRECONDITION"
    /\ UNCHANGED <<svc, mode, is_initialized, inbound, buffers, batch, lastMsg, lastAsm,
                   lastBatch, lastOut, lastExc, nread, nodd, nresp, nhandler,
                   ndispatch, ncomplete, nfail, track, expect, unanswered>>
    /\ UNCHANGED apart

\* The client half-closes the stream: the request iterator will raise
\* StopIteration at the next read.
CloseInbound ==
    /\ pc = "await"
    /\ inbound = "open"
    /\ inbound' = "ended"
    /\ UNCHANGED <<svc, mode, is_initialized, pc, status, buffers, batch, lastMsg,
                   lastAsm, lastBatch, lastOut, lastExc, nread, nodd, nresp, nhandler,
                   ndispatch, ncomplete, nfail, track, expect, unanswered>>
    /\ UNCHANGED apart

\* What _now_ms() may return when the loop reads it to make up an id: the
\* clock never runs backwards.  A message that brings its id does not look
\* at the clock.
ClockReadings(m) ==
    IF m.correlation_id # "" THEN {now}
    ELSE {ms \in {now, now + 1} : ms <= MaxClock}

\* What _now_ms() may return as the response is built, t0 being what it
\* returned when the message was read.  The clock of an answer stream runs;
\* on the other streams it stands still.
Elapsed(t0) ==
    IF mode = "answer" THEN {t \in {t0, t0 + 1} : t <= MaxClock} ELSE {t0}

\* A loop body that routes by the fields of the upload's first fragment.
Answering_First(m, earlier) ==
    IF earlier = <<>> THEN m
    ELSE [m EXCEPT !.task = earlier[1].task, !.payload_mime = earlier[1].payload_mime,
                   !.meta = earlier[1].meta]

\* The request whose task, payload_mime and meta the loop body reads: `req`,
\* the message just taken from the iterator.
Answering(m, earlier) == m

\* CLIPService.Infer / BioClipService.Infer: one iteration of the loop.
Recv(m) ==
    /\ svc \in {"clip", "bioclip"}
    /\ pc = "await"
    /\ inbound = "open"
    /\ nread < MaxRead
    /\ \E ms \in ClockReadings(m) : \E t1 \in Elapsed(ms) :
       LET cid == CidOf(m, ms)
           asm == Assemble(svc, cid, m, buffers)
           body == IF asm.ready
                   THEN LoopBody(svc, cid, Answering(m, received), asm.payload, t1 - ms)
                   ELSE NotReady
           tr == NextTrack(track, m, buffers)
       IN  /\ now' = IF asm.ready THEN t1 ELSE ms
           /\ buffers' = asm.buffers
           /\ lastMsg' = m
           /\ lastAsm' = [payload |-> asm.payload, ready |-> asm.ready]
           /\ lastOut' = body.out
           /\ lastExc' = body.exc
           /\ pc' = IF body.crashed THEN "crashed" ELSE "await"
           /\ nread' = nread + 1
           /\ nresp' = nresp + Len(body.out)
           /\ nhandler' = nhandler + body.handler
           /\ ncomplete' = ncomplete + (IF CompletesRequest(m) THEN 1 ELSE 0)
           /\ nfail' = nfail + (IF body.exc # "" \/ body.unknown THEN 1 ELSE 0)
           /\ track' = tr.track
           /\ expect' = tr.expect
           /\ received' = IF mode \in {"frag", "anon"}
                          THEN Append(received, [m EXCEPT !.correlation_id = cid])
                          ELSE received
    /\ UNCHANGED <<svc, mode, is_initialized, status, inbound, batch, lastBatch, nodd,
                   ndispatch, unanswered, pending, dispatched, streams, offstream>>

\* A loop that dispatches every request as it comes.
BatchFull_Eager(b) == Len(b) >= 1

\* A threshold test that is off by one.
BatchFull_Late(b) == Len(b) > BATCH_SIZE

\* `if len(batch) >= BATCH_SIZE:` inside the loop of UnifiedMLService.Infer
BatchFull(b) == Len(b) >= BATCH_SIZE

\* A final dispatch that waits for a full batch like the one in the loop.
BatchRemains_OnlyFull(b) == Len(b) >= BATCH_SIZE

\* A final dispatch that does not look at the batch.
BatchRemains_Always(b) == TRUE

\* `if batch:` after the loop of UnifiedMLService.Infer
BatchRemains(b) == b # <<>>

\* UnifiedMLService.Infer: one iteration of the loop: append, and dispatch
\* when the batch is full.
UnifiedRecv(m) ==
    /\ svc = "unified"
    /\ pc = "await"
    /\ inbound = "open"
    /\ nread < MaxRead
    /\ LET appended == Append(batch, m)
           full == BatchFull(appended)
           out == IF full THEN UnifiedMLService_process_batch(appended) ELSE <<>>
       IN  /\ batch' = IF full THEN <<>> ELSE appended
           /\ lastBatch' = IF full THEN appended ELSE <<>>
           /\ lastOut' = out
           /\ nresp' = nresp + Len(out)
           /\ nhandler' = nhandler + (IF full THEN HandlerCalls(appended) ELSE 0)
           /\ ndispatch' = ndispatch + (IF full THEN 1 ELSE 0)
           /\ nfail' = nfail + (IF full /\ BatchFailed(appended) THEN 1 ELSE 0)
           /\ unanswered' = Unanswered(Append(unanswered, m), out)
    /\ lastMsg' = m
    /\ nread' = nread + 1
    /\ nodd' = nodd + (IF mode = "long" /\ m # DefaultMsg THEN 1 ELSE 0)
    /\ ncomplete' = ncomplete + (IF CompletesRequest(m) THEN 1 ELSE 0)
    /\ UNCHANGED <<svc, mode, is_initialized, pc, status, inbound, buffers, lastAsm,
                   lastExc, track, expect>>
    /\ UNCHANGED apart

\* The inbound iterator is exhausted: the loop ends.  UnifiedMLService
\* processes what is left in the batch; the other two just return.  The
\* return drops the locals of the call, the dict `buffers` among them.
EndOfStream ==
    /\ pc = "await"
    /\ inbound = "ended"
    /\ pc' = "closed"
    /\ LET flush == svc = "unified" /\ BatchRemains(batch)
           out == IF flush THEN UnifiedMLService_process_batch(batch) ELSE <<>>
       IN  /\ lastBatch' = IF flush THEN batch ELSE <<>>
           /\ lastOut' = out
           /\ nresp' = nresp + Len(out)
           /\ nhandler' = nhandler + (IF flush THEN HandlerCalls(batch) ELSE 0)
           /\ ndispatch' = ndispatch + (IF flush THEN 1 ELSE 0)
           /\ nfail' = nfail + (IF flush /\ BatchFailed(batch) THEN 1 ELSE 0)
           /\ unanswered' = Unanswered(unanswered, out)
    /\ lastMsg' = NoMsg
    /\ lastAsm' = [payload |-> <<>>, ready |-> FALSE]
    /\ lastExc' = ""
    /\ expect' = NoExpect
    /\ buffers' = <<>>
    /\ UNCHANGED <<svc, mode, is_initialized, status, inbound, batch, nread,
                   nodd, ncomplete, track>>
    /\ UNCHANGED apart

Next ==
    \/ InferEntry
    \/ \E m \in Inbound : Recv(m)
    \/ \E m \in Inbound : UnifiedRecv(m)
    \/ CloseInbound
    \/ EndOfStream

Spec == Init /\ [][Next]_vars

\* The loop of Infer is left: under Spec these are the steps of EndOfStream,
\* named by the variables that tell them apart.
LoopExit == pc = "await" /\ inbound = "ended" /\ pc' = "closed"

\* A generator blocked on the request iterator resumes once the iterator is
\* exhausted: gRPC runs each stream on a thread of its own pool.
FairSpec == Spec /\ WF_pc(LoopExit)

\* Streams of unchunked requests with meta, some without a correlation id.
MetaSpec == MetaInit /\ [][Next]_vars

\* Streams that exercise what a success response carries: one request kind
\* per task, every topk, a running clock.
AnswerInit ==
    /\ svc \in {"unified", "clip", "bioclip"}
    /\ mode = "answer"
    /\ Fresh

AnswerSpec == AnswerInit /\ [][Next]_vars

\* Streams that carry one upload whose fragments disagree on task, MIME
\* type and meta.
FragInit ==
    /\ svc \in {"clip", "bioclip"}
    /\ mode = "frag"
    /\ Fresh

FragNext ==
    \/ InferEntry
    \/ \E m \in Inbound : Recv(m)
    \/ CloseInbound
    \/ EndOfStream

FragSpec == FragInit /\ [][FragNext]_vars

\* Streams whose requests leave the correlation id to the server, under a
\* running clock.
AnonInit ==
    /\ svc \in {"clip", "bioclip"}
    /\ mode = "anon"
    /\ Fresh

AnonSpec == AnonInit /\ [][FragNext]_vars

\* Streams that ask each servicer for every task name.
CapsInit ==
    /\ svc \in {"unified", "clip", "bioclip"}
    /\ mode = "caps"
    /\ Fresh

CapsSpec == CapsInit /\ [][Next]_vars

----------------------------------------------------------------------------
(* The managers on their own: both just constructed, initialize() called   *)
(* on either at any time, again after it returned and again after it       *)
(* raised.                                                                 *)
ManagerInit ==
    /\ svc = "unified"
    /\ mode = "manager"
    /\ is_initialized = [m \in Managers |-> FALSE]
    /\ FreshStream
    /\ streams = <<>>
    /\ Offstream

ManagerNext ==
    \/ \E m \in Managers : Initialize(m)
    \/ \E m \in Managers : InitializeStep(m)

ManagerSpec == ManagerInit /\ [][ManagerNext]_vars

----------------------------------------------------------------------------
(* serve(): the process creates the gRPC server and the UnifiedMLService,   *)
(* initializes the service, and only then opens the port and starts the    *)
(* server.                                                                 *)

\* server = grpc.server(...); service_instance = UnifiedMLService();
\* add_InferenceServicer_to_server: serve() stands before initialize().
ServeInit ==
    /\ svc = "unified"
    /\ mode = "serve"
    /\ is_initialized = [m \in Managers |-> FALSE]
    /\ FreshStream
    /\ streams = <<>>
    /\ managers = [m \in Managers |-> NewManager]
    /\ server = [at |-> "initializing", listening |-> FALSE, exit |-> -1]
    /\ NoPml

\* UnifiedMLService.initialize: self.clip_model.initialize(), and once it
\* has returned self.bioclip_model.initialize().
Turn(m) ==
    /\ managers[m].calls = 0
    /\ m = "bioclip" => managers.clip.outcome = "returned"

ServeInitialize(m) ==
    /\ server.at = "initializing"
    /\ Turn(m)
    /\ Initialize(m)

\* A serve() that starts the server without waiting for initialize().
InitializeReturned_Unchecked(mgrs) == TRUE

\* service_instance.initialize() has returned: both managers' initialize()
\* returned.
InitializeReturned(mgrs) == \A m \in Managers : mgrs[m].outcome = "returned"

\* server.add_insecure_port(listen_addr); server.start()
ServeStart ==
    /\ server.at = "initializing"
    /\ InitializeReturned(managers)
    /\ server' = [at |-> "serving", listening |-> TRUE, exit |-> -1]
    /\ UNCHANGED <<single, streams, managers, pml>>

\* except Exception: logger.exception(...); sys.exit(1)
ServeExit ==
    /\ server.at = "initializing"
    /\ \E m \in Managers : managers[m].outcome = "raised"
    /\ server' = [at |-> "exited", listening |-> FALSE, exit |-> 1]
    /\ UNCHANGED <<single, streams, managers, pml>>

\* handle_shutdown (SIGINT, SIGTERM): server.stop(grace=5.0)
ServeShutdown ==
    /\ server.at = "serving"
    /\ server' = [at |-> "stopped", listening |-> FALSE, exit |-> 0]
    /\ UNCHANGED <<single, streams, managers, pml>>

\* A client opens an Infer stream: the server takes it while it listens.
ServedInfer ==
    /\ server.listening
    /\ InferEntry

ServeNext ==
    \/ \E m \in Managers : ServeInitialize(m)
    \/ \E m \in Managers : InitializeStep(m)
    \/ ServeStart
    \/ ServeExit
    \/ ServeShutdown
    \/ ServedInfer
    \/ \E m \in Inbound : UnifiedRecv(m)
    \/ CloseInbound
    \/ EndOfStream

ServeSpec == ServeInit /\ [][ServeNext]_vars

----------------------------------------------------------------------------
(* The pml server: PredictionServiceServicer holds a registry of services, *)
(* registers a CLIPService in it when that initializes, and answers unary  *)
(* calls by delegating to the registered service.  A call's outcome is the *)
(* status code left on its context ("OK" when none was set) and the        *)
(* response it returned.                                                   *)

ModelNames == {"ViT-B-32", "ViT-L-14"}
Pretrained == {"laion2b_s34b_b79k", "openai"}

\* str.lower() on the names the clients send.
Lower(name) ==
    IF name = "CLIP" THEN "clip" ELSE IF name = "All" THEN "all" ELSE name

\* pml CLIPModelManager.__init__
NewCLIPModelManager(model_name, pretrained) ==
    [model_name |-> model_name, pretrained |-> pretrained, is_loaded |-> FALSE]

\* pml CLIPService.__init__
NewCLIPService(model_name, pretrained) ==
    [model_name |-> model_name, pretrained |-> pretrained,
     clip_model |-> NewCLIPModelManager(model_name, pretrained),
     is_initialized |-> FALSE]

\* pml CLIPService.initialize, when clip_model.initialize() returns.
CLIPService_initialize(service) ==
    [service EXCEPT !.clip_model.is_loaded = TRUE, !.is_initialized = TRUE]

\* A servicer that registers the service whether or not it initialized.
Registered_Always(outcome, service) ==
    Dict("clip", IF outcome = "ok" THEN CLIPService_initialize(service) ELSE service)

\* _initialize_services: register_service('clip', clip_service) is reached
\* when CLIPService(...) and initialize() returned; an exception is logged
\* and leaves the registry as it was, empty.
Registered(outcome, service) ==
    IF outcome = "ok" THEN Dict("clip", CLIPService_initialize(service)) ELSE <<>>

\* What a call leaves: the code set on the context, the response returned,
\* and whether an exception left the call.
Reply(code, response) == [code |-> code, response |-> response, raised |-> FALSE]
Raise == [code |-> "OK", response |-> <<>>, raised |-> TRUE]

\* The messages with every field at its default.
EmptyImageProcessResponse ==
    [image_id |-> "", image_feature_vector |-> <<>>, model_version |-> ""]
EmptyTextEmbeddingResponse == [text_feature_vector |-> <<>>, model_version |-> ""]
EmptyPredictResponse ==
    [prediction_floats |-> <<>>, confidence |-> 0, model_name |-> "", model_version |-> ""]

\* pml CLIPModelManager.encode_image / encode_text raise when the model is
\* not loaded; encode_image also when the bytes are no image.
EncodeImageRaises(clip_model, image_bytes) ==
    ~clip_model.is_loaded \/ ~Decodes(image_bytes)
EncodeTextRaises(clip_model, text) == ~clip_model.is_loaded

\* pml CLIPService.process_image_for_clip
CLIPService_process_image_for_clip(service, request) ==
    IF ~service.is_initialized
    THEN Reply("FAILED_PRECONDITION", EmptyImageProcessResponse)
    ELSE IF request.image_data = <<>>
    THEN Reply("INVALID_ARGUMENT", EmptyImageProcessResponse)
    ELSE IF EncodeImageRaises(service.clip_model, request.image_data)
    THEN Reply("INVALID_ARGUMENT", EmptyImageProcessResponse)
    ELSE Reply("OK", [image_id |-> request.image_id,
                      image_feature_vector |-> <<"image", request.image_data>>,
                      model_version |-> service.clip_model.model_name])

\* pml CLIPService.get_text_embedding_for_clip
CLIPService_get_text_embedding_for_clip(service, request) ==
    IF ~service.is_initialized
    THEN Reply("FAILED_PRECONDITION", EmptyTextEmbeddingResponse)
    ELSE IF request.text = ""
    THEN Reply("INVALID_ARGUMENT", EmptyTextEmbeddingResponse)
    ELSE IF EncodeTextRaises(service.clip_model, request.text)
    THEN Raise
    ELSE Reply("OK", [text_feature_vector |-> <<"text", request.text>>,
                      model_version |-> service.clip_model.model_name])

\* PredictionServiceServicer.ProcessImageForCLIP
ProcessImageForCLIP(services, request) ==
    IF "clip" \notin DOMAIN services
    THEN Reply("FAILED_PRECONDITION", EmptyImageProcessResponse)
    ELSE LET r == CLIPService_process_image_for_clip(services.clip, request) IN
         IF r.raised THEN Reply("INTERNAL", EmptyImageProcessResponse) ELSE r

\* PredictionServiceServicer.GetTextEmbeddingForCLIP
GetTextEmbeddingForCLIP(services, request) ==
    IF "clip" \notin DOMAIN services
    THEN Reply("FAILED_PRECONDITION", EmptyTextEmbeddingResponse)
    ELSE LET r == CLIPService_get_text_embedding_for_clip(services.clip, request) IN
         IF r.raised THEN Reply("INTERNAL", EmptyTextEmbeddingResponse) ELSE r

\* The prediction of a PredictResponse.
Prediction(features, model_name, clip_service) ==
    [prediction_floats |-> features, confidence |-> 1, model_name |-> model_name,
     model_version |-> clip_service.clip_model.model_name]

\* PredictionServiceServicer.Predict: request.field is the member of the
\* request's oneof that is set ("" when none is).
Predict(services, request) ==
    LET model_name == Lower(request.model_name) IN
    IF model_name = "clip" /\ "clip" \notin DOMAIN services
    THEN Reply("FAILED_PRECONDITION", EmptyPredictResponse)
    ELSE IF model_name = "clip" /\ request.field = "raw_data"
    THEN (IF EncodeImageRaises(services.clip.clip_model, request.raw_data)
          THEN Reply("INTERNAL", EmptyPredictResponse)
          ELSE Reply("OK", Prediction(<<"image", request.raw_data>>, model_name,
                                      services.clip)))
    ELSE IF model_name = "clip" /\ request.field = "text_input"
    THEN (IF EncodeTextRaises(services.clip.clip_model, request.text_input)
          THEN Reply("INTERNAL", EmptyPredictResponse)
          ELSE Reply("OK", Prediction(<<"text", request.text_input>>, model_name,
                                      services.clip)))
    ELSE Reply("UNIMPLEMENTED", EmptyPredictResponse)

\* if request.model_name: req.model_name = request.model_name
Overridden(request, req) ==
    IF request.model_name # "" THEN [req EXCEPT !.model_name = request.model_name] ELSE req

\* A loop that returns the predictions alone.
RECURSIVE BatchLoop_PredictionsOnly(_, _, _, _)
BatchLoop_PredictionsOnly(services, request, i, acc) ==
    IF i > Len(request.requests) THEN acc
    ELSE LET r == Predict(services, Overridden(request, request.requests[i])) IN
         BatchLoop_PredictionsOnly(services, request, i + 1,
             IF r.code # "OK"
             THEN [acc EXCEPT !.failed_count = @ + 1, !.code = r.code]
             ELSE [acc EXCEPT !.responses = Append(@, r.response),
                              !.success_count = @ + 1])

\* The loop of BatchPredict from its i-th request on: a Predict that
\* returns is counted a success and its response appended; one that raises
\* is counted a failure and an empty response appended.  The calls share
\* the context, which keeps the last code set on it.
RECURSIVE BatchLoop(_, _, _, _)
BatchLoop(services, request, i, acc) ==
    IF i > Len(request.requests) THEN acc
    ELSE LET r == Predict(services, Overridden(request, request.requests[i])) IN
         BatchLoop(services, request, i + 1,
             IF r.raised
             THEN [acc EXCEPT !.responses = Append(@, EmptyPredictResponse),
                              !.failed_count = @ + 1]
             ELSE [acc EXCEPT !.responses = Append(@, r.response),
                              !.success_count = @ + 1,
                              !.code = IF r.code # "OK" THEN r.code ELSE @])

\* PredictionServiceServicer.BatchPredict
BatchPredict(services, request) ==
    LET acc == BatchLoop(services, request, 1,
                         [code |-> "OK", responses |-> <<>>,
                          success_count |-> 0, failed_count |-> 0])
    IN  Reply(acc.code, [responses |-> acc.responses,
                         success_count |-> acc.success_count,
                         failed_count |-> acc.failed_count])

\* pml CLIPService.health_check
CLIPService_health_check(service) ==
    IF service.is_initialized /\ service.clip_model.is_loaded
    THEN [status |-> "SERVING", model_name |-> "openclip",
          model_version |-> service.clip_model.model_name]
    ELSE [status |-> "NOT_SERVING", model_name |-> "openclip", model_version |-> "unknown"]

\* PredictionServiceServicer.HealthCheck
HealthCheck(services, request) ==
    LET service_name == Lower(request.service_name) IN
    IF service_name = "all"
    THEN Reply("OK", [status |-> IF DOMAIN services # {} THEN "SERVING" ELSE "NOT_SERVING",
                      model_name |-> "all", model_version |-> "mixed"])
    ELSE IF service_name = "clip"
    THEN (IF "clip" \in DOMAIN services
          THEN Reply("OK", CLIPService_health_check(services.clip))
          ELSE Reply("OK", [status |-> "NOT_SERVING", model_name |-> "clip",
                            model_version |-> "unknown"]))
    ELSE Reply("OK", [status |-> "UNKNOWN", model_name |-> service_name,
                      model_version |-> "unknown"])

\* pml CLIPService.switch_model: the service after the call.  When the new
\* manager's initialize() raises, the except clause puts back clip_model,
\* model_name and pretrained.
CLIPService_switch_model(service, new_model_name, new_pretrained, loads) ==
    LET old == service.clip_model IN
    IF loads
    THEN CLIPService_initialize(
             [service EXCEPT !.model_name = new_model_name,
                             !.pretrained = new_pretrained,
                             !.clip_model = NewCLIPModelManager(new_model_name,
                                                               new_pretrained),
                             !.is_initialized = FALSE])
    ELSE [model_name |-> old.model_name, pretrained |-> old.pretrained,
          clip_model |-> old, is_initialized |-> FALSE]

\* The requests the clients send.
ImageProcessRequests ==
    {[image_id |-> "i1", image_data |-> d] : d \in Payloads \cup {<<>>}}
TextEmbeddingRequests == {[text |-> t] : t \in {"", "a dog"}}
PredictRequests ==
    {[model_name |-> "clip", field |-> "raw_data", raw_data |-> d, text_input |-> ""] :
        d \in Payloads}
    \cup {[model_name |-> n, field |-> f, raw_data |-> <<>>, text_input |-> t] :
             n \in {"clip"}, f \in {"text_input", ""}, t \in {"a dog"}}
    \cup {[model_name |-> n, field |-> "raw_data", raw_data |-> <<65>>, text_input |-> ""] :
             n \in {"CLIP", "resnet"}}
RECURSIVE SeqsUpTo(_, _)
SeqsUpTo(S, n) ==
    IF n = 0 THEN {<<>>}
    ELSE LET shorter == SeqsUpTo(S, n - 1) IN
         shorter \cup {Append(q, x) : q \in {t \in shorter : Len(t) = n - 1}, x \in S}
\* The batches: requests with raw_data, for a model or another, and
\* possibly a model name for the whole batch.
BatchPredictRequests ==
    {[model_name |-> n, requests |-> q] :
        n \in {"", "clip", "resnet"},
        q \in SeqsUpTo({r \in PredictRequests :
                            r.field = "raw_data" /\ r.model_name # "CLIP"}, MaxBatch)}
HealthCheckRequests == {[service_name |-> n] : n \in {"all", "All", "clip", "CLIP", "other"}}

\* The servicer before PredictionServiceServicer() is called.
PmlInit ==
    /\ svc = "unified"
    /\ mode = "pml"
    /\ is_initialized = [m \in Managers |-> FALSE]
    /\ FreshStream
    /\ streams = <<>>
    /\ Offstream

\* PredictionServiceServicer.__init__: the registry is created and
\* _initialize_services runs; CLIPService.initialize returns or raises.
Construct ==
    /\ ~servicer.constructed
    /\ \E outcome \in {"ok", "raised"} :
           servicer' = [constructed |-> TRUE, initialization |-> outcome,
                        services |-> Registered(outcome,
                                        NewCLIPService("ViT-B-32", "laion2b_s34b_b79k"))]
    /\ UNCHANGED <<single, streams, managers, server, call>>

\* A unary call on the servicer.
UnaryCall(rpc, request, r) ==
    /\ servicer.constructed
    /\ call' = [rpc |-> rpc, request |-> request, code |-> r.code,
                response |-> r.response, raised |-> r.raised]
    /\ UNCHANGED <<single, streams, managers, server, servicer>>

ProcessImageForCLIPCall ==
    \E request \in ImageProcessRequests :
        UnaryCall("ProcessImageForCLIP", request, ProcessImageForCLIP(servicer.services, request))

GetTextEmbeddingForCLIPCall ==
    \E request \in TextEmbeddingRequests :
        UnaryCall("GetTextEmbeddingForCLIP", request,
               GetTextEmbeddingForCLIP(servicer.services, request))

PredictCall ==
    \E request \in PredictRequests :
        UnaryCall("Predict", request, Predict(servicer.services, request))

BatchPredictCall ==
    \E request \in BatchPredictRequests :
        UnaryCall("BatchPredict", request, BatchPredict(servicer.services, request))

HealthCheckCall ==
    \E request \in HealthCheckRequests :
        UnaryCall("HealthCheck", request, HealthCheck(servicer.services, request))

\* switch_model is called on the registered CLIPService; loading the new
\* model succeeds or raises, and the exception leaves the call.
SwitchModelCall ==
    /\ servicer.constructed
    /\ "clip" \in DOMAIN servicer.services
    /\ \E new_model_name \in ModelNames, new_pretrained \in Pretrained, loads \in BOOLEAN :
           /\ servicer' = [servicer EXCEPT !.services.clip =
                              CLIPService_switch_model(@, new_model_name,
                                                       new_pretrained, loads)]
           /\ call' = [rpc |-> "switch_model",
                       request |-> <<new_model_name, new_pretrained>>,
                       code |-> "OK", response |-> <<>>, raised |-> ~loads]
    /\ UNCHANGED <<single, streams, managers, server>>

PmlNext ==
    \/ Construct
    \/ ProcessImageForCLIPCall
    \/ GetTextEmbeddingForCLIPCall
    \/ PredictCall
    \/ BatchPredictCall
    \/ HealthCheckCall
    \/ SwitchModelCall

PmlSpec == PmlInit /\ [][PmlNext]_vars

----------------------------------------------------------------------------
(* UnifiedMLService.Infer step by step: the read, the append and the       *)
(* threshold test, the call of _process_batch, each yield, batch.clear().  *)
(* pc is "await" while the generator is blocked on the request iterator,   *)
(* "accumulating" between the read and the test, "dispatching" while it    *)
(* yields the responses of a full batch and "flushing" while it yields     *)
(* those of the batch left at the end of the stream.                       *)

StepInit ==
    /\ svc = "unified"
    /\ mode = "step"
    /\ Fresh

\* A loop that keeps the batch it has dispatched.
Cleared_Kept(b) == b

\* batch.clear()
Cleared(b) == <<>>

\* `for req in request_iterator:` hands over a request; batch.append(req)
StepRead(m) ==
    /\ mode = "step"
    /\ pc = "await"
    /\ inbound = "open"
    /\ nread < MaxRead
    /\ pc' = "accumulating"
    /\ batch' = Append(batch, m)
    /\ received' = Append(received, m)
    /\ unanswered' = Append(unanswered, m)
    /\ lastMsg' = m
    /\ nread' = nread + 1
    /\ nodd' = nodd + (IF <<m.task, m.payload>> # StepDefault THEN 1 ELSE 0)
    /\ UNCHANGED <<svc, mode, is_initialized, status, inbound, buffers, lastAsm, lastBatch,
                   lastOut, lastExc, nresp, nhandler, ndispatch, ncomplete, nfail, track,
                   expect, now, pending, dispatched, streams, offstream>>

\* self._process_batch(batch) is called: its responses are still to come.
Called(b) ==
    /\ lastBatch' = b
    /\ pending' = UnifiedMLService_process_batch(b)
    /\ lastOut' = <<>>
    /\ dispatched' = dispatched \o b
    /\ ndispatch' = ndispatch + 1
    /\ nhandler' = nhandler + HandlerCalls(b)

\* `if len(batch) >= BATCH_SIZE:`
StepTest ==
    /\ pc = "accumulating"
    /\ IF BatchFull(batch)
       THEN pc' = "dispatching" /\ Called(batch)
       ELSE pc' = "await" /\ UNCHANGED <<lastBatch, pending, lastOut, dispatched,
                                         ndispatch, nhandler>>
    /\ UNCHANGED <<svc, mode, is_initialized, status, inbound, buffers, batch, lastMsg,
                   lastAsm, lastExc, nread, nodd, nresp, ncomplete, nfail, track, expect,
                   unanswered, now, received, streams, offstream>>

\* `yield response`
StepYield ==
    /\ pc \in {"dispatching", "flushing"}
    /\ pending # <<>>
    /\ pending' = Tail(pending)
    /\ lastOut' = Append(lastOut, Head(pending))
    /\ nresp' = nresp + 1
    /\ unanswered' = Unanswered(unanswered, <<Head(pending)>>)
    /\ UNCHANGED <<svc, mode, is_initialized, pc, status, inbound, buffers, batch, lastMsg,
                   lastAsm, lastBatch, lastExc, nread, nodd, nhandler, ndispatch, ncomplete,
                   nfail, track, expect, now, received, dispatched, streams, offstream>>

\* _process_batch is exhausted: batch.clear(), and back to the iterator.
StepClear ==
    /\ pc = "dispatching"
    /\ pending = <<>>
    /\ pc' = "await"
    /\ batch' = Cleared(batch)
    /\ UNCHANGED <<svc, mode, is_initialized, status, inbound, buffers, lastMsg, lastAsm,
                   lastBatch, lastOut, lastExc, nread, nodd, nresp, nhandler, ndispatch,
                   ncomplete, nfail, track, expect, unanswered, now, pending, received,
                   dispatched, streams, offstream>>

\* The request iterator is exhausted: `if batch:` after the loop.
StepEnd ==
    /\ mode = "step"
    /\ pc = "await"
    /\ inbound = "ended"
    /\ IF BatchRemains(batch)
       THEN pc' = "flushing" /\ Called(batch)
       ELSE pc' = "closed" /\ UNCHANGED <<lastBatch, pending, lastOut, dispatched,
                                          ndispatch, nhandler>>
    /\ UNCHANGED <<svc, mode, is_initialized, status, inbound, buffers, batch, lastMsg,
                   lastAsm, lastExc, nread, nodd, nresp, ncomplete, nfail, track, expect,
                   unanswered, now, received, streams, offstream>>

\* The last _process_batch is exhausted: Infer returns.
StepReturn ==
    /\ pc = "flushing"
    /\ pending = <<>>
    /\ pc' = "closed"
    /\ UNCHANGED <<svc, mode, is_initialized, status, inbound, buffers, batch, lastMsg,
                   lastAsm, lastBatch, lastOut, lastExc, nread, nodd, nresp, nhandler,
                   ndispatch, ncomplete, nfail, track, expect, unanswered, now, pending,
                   received, dispatched, streams, offstream>>

StepNext ==
    \/ InferEntry
    \/ CloseInbound
    \/ \E m \in Inbound : StepRead(m)
    \/ StepTest
    \/ StepYield
    \/ StepClear
    \/ StepEnd
    \/ StepReturn

StepSpec == StepInit /\ [][StepNext]_vars

\* Where the generator stands: its position and how much it has yielded.
position == <<pc, nresp>>

\* The steps the generator takes on its own, once it is not blocked on the
\* request iterator of an open stream, named by the variables that tell
\* them apart.
Advance ==
    \/ pc = "accumulating" /\ pc' \in {"await", "dispatching"} /\ nresp' = nresp
    \/ pc \in {"dispatching", "flushing"} /\ pending # <<>> /\ pc' = pc /\ nresp' = nresp + 1
    \/ pc = "dispatching" /\ pending = <<>> /\ pc' = "await" /\ nresp' = nresp
    \/ pc = "flushing" /\ pending = <<>> /\ pc' = "closed" /\ nresp' = nresp
    \/ pc = "await" /\ inbound = "ended" /\ pc' \in {"flushing", "closed"} /\ nresp' = nresp

\* A generator that can run does run: gRPC drives each stream on a thread of
\* its pool.
FairStepSpec == StepSpec /\ WF_position(Advance)

----------------------------------------------------------------------------
(* Concurrent streams.  serve() runs the servicer on a thread pool, so     *)
(* several Infer calls run on one instance at once.  Each call is a        *)
(* generator with its own locals (buffers, batch); the instance attributes *)
(* they share are the models, which Infer only reads.  A loop iteration    *)
(* touches nothing but the locals of its call, so the interleaving of two  *)
(* calls is an interleaving of whole iterations.                           *)

StreamIds == 1..2

\* What the client of stream s puts in its payloads, to tell the streams'
\* bytes apart.
Origin(s) == 64 + s

NewStream ==
    [pc |-> "start", nread |-> 0, buffers |-> <<>>, batch |-> <<>>,
     asm |-> [payload |-> <<>>, ready |-> FALSE], dispatched |-> <<>>, out |-> <<>>]

\* Both clients use the same correlation id.
ConcChunkedMsgs(s) ==
    {Message("c1", "classify", <<Origin(s)>>, "image/jpeg", k[1], k[2], k[3]) :
        k \in Coordinates}
ConcUnifiedMsgs(s) == {Message("c1", "clip_embed", <<Origin(s)>>, "text/plain", 0, 0, 0)}

\* One buffer map for the whole servicer.
BuffersOf_Instance(sts, s) == sts[1].buffers

\* `buffers` is a local of the Infer call.
BuffersOf(sts, s) == sts[s].buffers

\* One batch for the whole servicer.
BatchOf_Instance(sts, s) == sts[1].batch

\* `batch` is a local of the Infer call.
BatchOf(sts, s) == sts[s].batch

ConcInit ==
    /\ svc \in {"unified", "clip", "bioclip"}
    /\ mode = "conc"
    /\ is_initialized = [clip |-> TRUE, bioclip |-> TRUE]
    /\ FreshStream
    /\ streams = [s \in StreamIds |-> NewStream]
    /\ Offstream

\* Infer of call s, up to its loop.
ConcEntry(s) ==
    /\ streams[s].pc = "start"
    /\ streams' = [streams EXCEPT ![s].pc =
                      IF ModelReady(svc, is_initialized) THEN "await" ELSE "aborted"]
    /\ UNCHANGED <<single, offstream>>

\* CLIPService.Infer / BioClipService.Infer of call s: one loop iteration.
ConcRecv(s, m) ==
    /\ svc \in {"clip", "bioclip"}
    /\ streams[s].pc = "await"
    /\ streams[s].nread < MaxMsgs
    /\ LET cid == CidOf(m, now)
           asm == Assemble(svc, cid, m, BuffersOf(streams, s))
           body == IF asm.ready THEN LoopBody(svc, cid, m, asm.payload, 0) ELSE NotReady
       IN  streams' = [streams EXCEPT
                          ![s].nread = @ + 1,
                          ![s].buffers = asm.buffers,
                          ![s].asm = [payload |-> asm.payload, ready |-> asm.ready],
                          ![s].out = body.out]
    /\ UNCHANGED <<single, offstream>>

\* UnifiedMLService.Infer of call s: one loop iteration.
ConcUnifiedRecv(s, m) ==
    /\ svc = "unified"
    /\ streams[s].pc = "await"
    /\ streams[s].nread < MaxLong
    /\ LET appended == Append(BatchOf(streams, s), m)
           full == BatchFull(appended)
       IN  streams' = [streams EXCEPT
                          ![s].nread = @ + 1,
                          ![s].batch = IF full THEN <<>> ELSE appended,
                          ![s].dispatched = IF full THEN appended ELSE <<>>,
                          ![s].out = IF full THEN UnifiedMLService_process_batch(appended)
                                     ELSE <<>>]
    /\ UNCHANGED <<single, offstream>>

\* The inbound iterator of call s is exhausted: the loop ends, the final
\* batch is dispatched, and the call returns, which drops its locals.
ConcEnd(s) ==
    /\ streams[s].pc = "await"
    /\ LET b == BatchOf(streams, s)
           flush == svc = "unified" /\ BatchRemains(b)
       IN  streams' = [streams EXCEPT
                          ![s].pc = "closed",
                          ![s].buffers = <<>>,
                          ![s].batch = <<>>,
                          ![s].asm = [payload |-> <<>>, ready |-> FALSE],
                          ![s].dispatched = IF flush THEN b ELSE <<>>,
                          ![s].out = IF flush THEN UnifiedMLService_process_batch(b)
                                     ELSE <<>>]
    /\ UNCHANGED <<single, offstream>>

ConcNext ==
    \/ \E s \in StreamIds : ConcEntry(s)
    \/ \E s \in StreamIds : \E m \in ConcChunkedMsgs(s) : ConcRecv(s, m)
    \/ \E s \in StreamIds : \E m \in ConcUnifiedMsgs(s) : ConcUnifiedRecv(s, m)
    \/ \E s \in StreamIds : ConcEnd(s)

ConcSpec == ConcInit /\ [][ConcNext]_vars

----------------------------------------------------------------------------
(* What the claims speak of.                                               *)

DistinctIds(reqs) ==
    \A i, j \in 1..Len(reqs) : i # j => reqs[i].correlation_id # reqs[j].correlation_id

\* How many responses of `out` carry `cid`.
Carrying(out, cid) == Cardinality({j \in 1..Len(out) : out[j].correlation_id = cid})

\* A dispatch has just happened: lastBatch went through _process_batch and
\* lastOut is what it yielded.
Dispatched == svc = "unified" /\ lastBatch # <<>>

\* The groups of the batch just dispatched, and where the output of group i
\* lies in lastOut.
LastSegs == Segments(lastBatch)
RECURSIVE OutLen(_, _)
OutLen(segs, n) == IF n = 0 THEN 0 ELSE OutLen(segs, n - 1) + Len(segs[n].out)
SegFirst(i) == OutLen(LastSegs, i - 1) + 1
SegLast(i) == OutLen(LastSegs, i)
OutWithout(i) ==
    SubSeq(lastOut, 1, SegFirst(i) - 1) \o SubSeq(lastOut, SegLast(i) + 1, Len(lastOut))

GroupRaised(seg) ==
    seg.task \in UnifiedTasks /\ Handler(seg.task, seg.requests).exc # ""
GroupSucceeded(seg) ==
    seg.task \in UnifiedTasks /\ Handler(seg.task, seg.requests).exc = ""
GroupUnknown(seg) == seg.task \notin UnifiedTasks

\* Every request of group i has, within the group's output, a response
\* that carries its correlation id and the error `code`.
GroupGot(i, code) ==
    \A k \in 1..Len(LastSegs[i].requests) :
        \E j \in SegFirst(i)..SegLast(i) :
            /\ lastOut[j].correlation_id = LastSegs[i].requests[k].correlation_id
            /\ lastOut[j].error = code

\* Every request of group i has, within the group's output, a response
\* that carries its correlation id.
GroupAnswered(i) ==
    \A k \in 1..Len(LastSegs[i].requests) :
        \E j \in SegFirst(i)..SegLast(i) :
            lastOut[j].correlation_id = LastSegs[i].requests[k].correlation_id

----------------------------------------------------------------------------
(* C1: for every batch of requests with pairwise distinct correlation ids  *)
(* handed to _process_batch, the responses carry exactly the submitted     *)
(* ids, each exactly once, also when a handler fails partway through its   *)
(* group.                                                                  *)
C1_EachIdExactlyOnce ==
    (Dispatched /\ DistinctIds(lastBatch)) =>
        /\ Len(lastOut) = Len(lastBatch)
        /\ \A i \in 1..Len(lastBatch) :
               Carrying(lastOut, lastBatch[i].correlation_id) = 1

(* C2: when the handler of one task group raises, every request of that    *)
(* group receives an INTERNAL error response with its own correlation id   *)
(* and the failure message, and the responses of the other groups are      *)
(* those the batch yields without the failing group.                       *)
C2_GroupFailureIsolation ==
    Dispatched =>
        \A i \in 1..Len(LastSegs) :
            GroupRaised(LastSegs[i]) =>
                /\ \A k \in 1..Len(LastSegs[i].requests) :
                       \E j \in SegFirst(i)..SegLast(i) :
                           lastOut[j] =
                               Failure(LastSegs[i].requests[k].correlation_id, "INTERNAL",
                                       Handler(LastSegs[i].task, LastSegs[i].requests).exc)
                /\ OutWithout(i) =
                       UnifiedMLService_process_batch(
                           SelectSeq(lastBatch, LAMBDA r : r.task # LastSegs[i].task))

C2_Witness ==
    /\ Dispatched
    /\ \E i, j \in 1..Len(LastSegs) :
           /\ GroupRaised(LastSegs[i]) /\ Len(LastSegs[i].requests) >= 2
           /\ GroupSucceeded(LastSegs[j])

(* C3: in a batch with a group whose task has no handler and a group with  *)
(* a recognized task, every request of the unknown group receives an       *)
(* INVALID_ARGUMENT error response, nothing propagates, no handler is      *)
(* invoked for the unknown group, and the recognized group is dispatched   *)
(* and answered.                                                           *)
C3_UnknownTaskIsolation ==
    Dispatched =>
        \A i \in 1..Len(LastSegs) :
            GroupUnknown(LastSegs[i]) =>
                /\ GroupGot(i, "INVALID_ARGUMENT")
                /\ pc # "crashed"
                /\ Len(lastBatch) = nread =>
                       nhandler = Len(LastSegs)
                                  - Cardinality({g \in 1..Len(LastSegs) : GroupUnknown(LastSegs[g])})
                /\ \A j \in 1..Len(LastSegs) :
                       ~GroupUnknown(LastSegs[j]) => GroupAnswered(j)

C3_Witness ==
    /\ Dispatched
    /\ \E i, j \in 1..Len(LastSegs) :
           /\ i < j
           /\ GroupUnknown(LastSegs[i]) /\ Len(LastSegs[i].requests) >= 2
           /\ GroupSucceeded(LastSegs[j])

(* C4: when the inbound stream of UnifiedMLService.Infer ends after n      *)
(* requests, whatever n is (below BATCH_SIZE, or no multiple of it), every *)
(* request has been dispatched and answered: none is left in a batch that  *)
(* never reached the threshold.                                            *)
C4_FlushOnStreamEnd ==
    /\ [](svc = "unified" /\ pc = "closed" => unanswered = <<>> /\ nresp >= nread)
    /\ (svc = "unified" /\ inbound = "ended") ~> (pc = "closed" /\ unanswered = <<>>)

C4_Witness ==
    /\ svc = "unified" /\ pc = "closed"
    /\ nread = BATCH_SIZE + 1
    /\ Len(lastBatch) = 1
    /\ unanswered = <<>>

(* C5: when the fragments of a correlation id arrive with seq = 0..total-1 *)
(* in order (total > 1), _assemble answers ready = False with an empty     *)
(* payload to every fragment but the last, and to the last one ready =     *)
(* True with the concatenation of the fragment payloads in seq order, and  *)
(* it deletes the buffer entry, so the next request with that id starts    *)
(* from nothing.                                                           *)
C5_InOrderReassembly ==
    /\ expect.kind = "partial" => lastAsm = [payload |-> <<>>, ready |-> FALSE]
    /\ expect.kind = "complete" =>
           /\ lastAsm = [payload |-> expect.data, ready |-> TRUE]
           /\ lastMsg.correlation_id \notin DOMAIN buffers

C5_Witness ==
    /\ svc = "bioclip"
    /\ expect.kind = "complete"
    /\ nread = 3
    /\ lastAsm = [payload |-> <<255, 65>>, ready |-> TRUE]

(* C6: for a request with total <= 1, whatever the buffer map holds,       *)
(* _assemble returns (request.payload, True) and leaves the buffer map as  *)
(* it was.                                                                 *)
C6_Passthrough ==
    [][(svc \in {"clip", "bioclip"} /\ nread' = nread + 1 /\ lastMsg'.total <= 1) =>
          /\ lastAsm' = [payload |-> lastMsg'.payload, ready |-> TRUE]
          /\ buffers' = buffers]_vars

(* C7: in CLIPService.Infer and BioClipService.Infer every message that    *)
(* completes a logical request (total <= 1, or seq + 1 = total) yields     *)
(* exactly one response before the next message is read and every          *)
(* non-final fragment yields none, so the responses emitted always number  *)
(* the completed logical requests.                                         *)
C7_OneResponsePerCompletedRequest ==
    (svc \in {"clip", "bioclip"} /\ pc \in {"await", "closed"}) =>
        /\ nresp = ncomplete
        /\ (lastMsg # NoMsg /\ CompletesRequest(lastMsg)) => Len(lastOut) = 1
        /\ (lastMsg # NoMsg /\ NonFinalFragment(lastMsg)) => Len(lastOut) = 0

(* C8: UnifiedMLService.Infer passes every inbound message through chunk   *)
(* reassembly before it reaches the batch: a non-final fragment is never   *)
(* in a batch and never answered.                                          *)
C8_FragmentsNeverBatched ==
    svc = "unified" =>
        /\ \A i \in 1..Len(batch) : ~NonFinalFragment(batch[i])
        /\ \A i \in 1..Len(lastBatch) : ~NonFinalFragment(lastBatch[i])

(* C9: when the backing model is not initialized as the stream starts,     *)
(* UnifiedMLService, CLIPService and BioClipService abort the stream with  *)
(* FAILED_PRECONDITION before any request is read: no handler runs and no  *)
(* response is emitted.                                                    *)
C9_EntryPrecondition ==
    (\/ svc = "unified" /\ ~(is_initialized.clip /\ is_initialized.bioclip)
     \/ svc = "clip" /\ ~is_initialized.clip
     \/ svc = "bioclip" /\ ~is_initialized.bioclip) =>
        /\ pc \in {"start", "aborted"}
        /\ pc = "aborted" => status = "FAILED_PRECONDITION"
        /\ nread = 0 /\ nhandler = 0 /\ nresp = 0

C9_Witness ==
    /\ svc = "unified"
    /\ is_initialized.clip /\ ~is_initialized.bioclip
    /\ pc = "aborted" /\ status = "FAILED_PRECONDITION"

\* The last loop iteration of CLIPService/BioClipService.Infer failed.
LastFailed == lastExc # "" \/ (lastAsm.ready /\ lastMsg.task \notin RoutedTasks(svc))

(* C10: past the entry test no failure in handling a request ends the      *)
(* stream: an unknown task or an exception of a handler becomes an error   *)
(* response for the requests it affects, the generator stays in its loop,  *)
(* and the requests read after it are processed and answered.              *)
C10_FailuresStayInBand ==
    /\ pc # "crashed"
    /\ status # "OK" => nread = 0
    /\ (svc \in {"clip", "bioclip"} /\ lastMsg # NoMsg) =>
           /\ lastExc # "" =>
                  lastOut = <<Failure(lastMsg.correlation_id, "INTERNAL", lastExc)>>
           /\ (lastAsm.ready /\ lastMsg.task \notin RoutedTasks(svc)) =>
                  /\ Len(lastOut) = 1
                  /\ lastOut[1].correlation_id = lastMsg.correlation_id
                  /\ lastOut[1].error = "INVALID_ARGUMENT"
           /\ lastAsm.ready => Len(lastOut) = 1
           /\ pc = "await"
    /\ Dispatched =>
           /\ \A i \in 1..Len(LastSegs) :
                  /\ GroupRaised(LastSegs[i]) => GroupGot(i, "INTERNAL")
                  /\ GroupUnknown(LastSegs[i]) => GroupGot(i, "INVALID_ARGUMENT")
                  /\ GroupAnswered(i)
           /\ unanswered = <<>>

\* A failure in the first batch of a stream, and the request read after it
\* answered with a result.
C10_Witness ==
    /\ svc = "unified" /\ pc = "closed"
    /\ nread = BATCH_SIZE + 1
    /\ nfail = 1 /\ ~BatchFailed(lastBatch)
    /\ Len(lastOut) = 1 /\ lastOut[1].error = "NONE"

----------------------------------------------------------------------------
\* The per-request validation the handlers perform: the MIME class the task
\* expects and the namespace (BioClipService), and a numeric topk (classify
\* of both services).
FailsValidation(service, m) ==
    \/ service = "bioclip" /\ m.task = "embed" /\ m.payload_mime # "text/plain"
    \/ service = "bioclip" /\ m.task = "classify" /\ m.payload_mime # "image/jpeg"
    \/ service = "bioclip" /\ m.task = "classify" /\ m.meta.namespace \notin {"", "bioatlas"}
    \/ m.task = "classify" /\ ~ParsesInt(m.meta.topk)

(* C11: a request that fails per-request validation (wrong MIME class for  *)
(* the task, unsupported namespace, unparseable topk) is answered with one *)
(* error response whose code is INVALID_ARGUMENT, and the stream goes on.  *)
C11_ValidationIsInvalidArgument ==
    (svc \in {"clip", "bioclip"} /\ lastMsg # NoMsg /\ lastAsm.ready
        /\ FailsValidation(svc, lastMsg)) =>
        /\ Len(lastOut) = 1
        /\ lastOut[1].correlation_id = lastMsg.correlation_id
        /\ lastOut[1].error = "INVALID_ARGUMENT"
        /\ pc = "await"

\* A response is a success (result and result_mime, no error) or a failure
\* (error code and message, no result and no result_mime).
IsSuccess(r) ==
    r.error = "NONE" /\ r.message = "" /\ r.result # <<>> /\ r.result_mime # ""
IsFailure(r) ==
    /\ r.error \in {"INVALID_ARGUMENT", "FAILED_PRECONDITION", "INTERNAL"}
    /\ r.message # "" /\ r.result = <<>> /\ r.result_mime = ""

C13_CorrelationIdNeverEmpty ==
    /\ \A j \in 1..Len(lastOut) : lastOut[j].correlation_id # ""
    /\ (svc \in {"clip", "bioclip"} /\ lastMsg # NoMsg /\ lastMsg.correlation_id # "") =>
           \A j \in 1..Len(lastOut) : lastOut[j].correlation_id = lastMsg.correlation_id
    /\ Dispatched =>
           \A i \in 1..Len(lastBatch) :
               lastBatch[i].correlation_id # "" =>
                   \E j \in 1..Len(lastOut) :
                       lastOut[j].correlation_id = lastBatch[i].correlation_id

(* C14: whenever _assemble returns ready = True for a message with         *)
(* total > 1, whatever fragments the stream carried before (missing,       *)
(* repeated, out of order, left over from an upload never completed), the  *)
(* payload is the concatenation in seq order of the fragments 0..total-1   *)
(* of that logical request.                                                *)
C14_ReadyMeansComplete ==
    (svc \in {"clip", "bioclip"} /\ lastMsg # NoMsg /\ lastMsg.total > 1 /\ lastAsm.ready) =>
        /\ expect.kind = "complete"
        /\ lastAsm.payload = expect.data

\* The message `m` with the whole payload in it and no chunk coordinates.
Unsplit(m, payload) == [m EXCEPT !.payload = payload, !.seq = 0, !.total = 0, !.offset = 0]

\* What a stream whose buffer map is `bufs` answers to the message m, on a
\* clock that stands still.
Answer(service, m, bufs) ==
    LET cid == CidOf(m, now)
        asm == Assemble(service, cid, m, bufs)
    IN  IF asm.ready THEN LoopBody(service, cid, m, asm.payload, 0).out ELSE <<>>

\* What a stream answers to a message sent on its own.
OneShot(service, m) == Answer(service, m, <<>>)

(* C15: in CLIPService.Infer and BioClipService.Infer a request sent as    *)
(* fragments seq 0..total-1 in order yields nothing until its last         *)
(* fragment and then the one response (correlation id, result,             *)
(* result_mime, error) that the same request yields when it is sent        *)
(* unsplit in one message.                                                 *)
C15_ChunkingTransparent ==
    svc \in {"clip", "bioclip"} =>
        /\ expect.kind = "partial" => lastOut = <<>>
        /\ expect.kind = "complete" =>
               /\ Len(lastOut) = 1
               /\ lastOut = OneShot(svc, Unsplit(lastMsg, expect.data))

C15_Witness ==
    /\ svc = "clip"
    /\ expect.kind = "complete"
    /\ Len(lastOut) = 1 /\ lastOut[1].error = "NONE"
    /\ lastOut[1].result = << <<65, 65>> >> /\ lastOut[1].result_mime = LabelsMime

\* The steps of UnifiedMLService.Infer: a message is read, the loop is
\* left, and _process_batch is called.
ReadStep == svc = "unified" /\ nread' = nread + 1
EndStep == svc = "unified" /\ pc = "await" /\ pc' = "closed"
DispatchStep == svc = "unified" /\ ndispatch' = ndispatch + 1

(* C16: every batch handed to _process_batch holds between 1 and           *)
(* BATCH_SIZE requests; a dispatch happens exactly when the accumulated    *)
(* count reaches BATCH_SIZE or the inbound stream ends with a non-empty    *)
(* accumulation; the accumulation never exceeds BATCH_SIZE.                *)
C16_BatchBounds ==
    /\ [](svc = "unified" => Len(batch) <= BATCH_SIZE /\ Len(lastBatch) <= BATCH_SIZE)
    /\ [][svc = "unified" =>
            /\ ndispatch' \in {ndispatch, ndispatch + 1}
            /\ DispatchStep <=> \/ ReadStep /\ Len(batch) + 1 = BATCH_SIZE
                                \/ EndStep /\ batch # <<>>
            /\ DispatchStep => /\ Len(lastBatch') \in 1..BATCH_SIZE
                               /\ lastBatch' = IF ReadStep THEN Append(batch, lastMsg')
                                                ELSE batch]_vars

C16_Witness ==
    /\ svc = "unified" /\ pc = "await"
    /\ nread = BATCH_SIZE /\ ndispatch = 1
    /\ Len(lastBatch) = BATCH_SIZE /\ batch = <<>>

(* C17: when the inbound stream of UnifiedMLService.Infer ends with        *)
(* nothing accumulated (no request at all, or a multiple of BATCH_SIZE),   *)
(* _process_batch is not called again, no further response is emitted and  *)
(* the stream closes.                                                      *)
C17_NoDispatchOnEmpty ==
    [][(EndStep /\ batch = <<>>) =>
          /\ ndispatch' = ndispatch
          /\ nhandler' = nhandler
          /\ nresp' = nresp /\ lastOut' = <<>>
          /\ pc' = "closed"]_vars

C17_Witness ==
    /\ svc = "unified" /\ pc = "closed"
    /\ nread = BATCH_SIZE /\ ndispatch = 1
    /\ batch = <<>> /\ lastOut = <<>>

\* Every byte of `payload` was sent on stream s.
FromStream(s, payload) == \A i \in 1..Len(payload) : payload[i] = Origin(s)

\* Stream s took a step.
StreamStep(s) == streams'[s] # streams[s]

\* A step of one stream leaves the locals of every other stream alone.
OthersUntouched ==
    \A s, t \in DOMAIN streams : (StreamStep(s) /\ t # s) => (streams'[t] = streams[t])

(* C18: concurrent Infer streams on one CLIPService or BioClipService      *)
(* never share reassembly state: when two streams use the same correlation *)
(* id, what each one buffers and reassembles is made of the fragments it   *)
(* received itself, and a step of one stream (a fragment, a completion,    *)
(* the end of the stream) leaves the other stream's buffers as they were.  *)
C18_StreamsOwnTheirBuffers ==
    /\ [](svc \in {"clip", "bioclip"} =>
            \A s \in DOMAIN streams :
                /\ \A c \in DOMAIN streams[s].buffers : FromStream(s, streams[s].buffers[c])
                /\ FromStream(s, streams[s].asm.payload)
                /\ \A j \in 1..Len(streams[s].out) :
                       streams[s].out[j].error = "NONE" =>
                           FromStream(s, streams[s].out[j].result[1]))
    /\ [][(svc \in {"clip", "bioclip"}) => OthersUntouched]_vars

\* Both streams hold bytes for the same id and the first completes its
\* upload with its own two fragments.
C18_Witness ==
    /\ svc = "clip" /\ mode = "conc"
    /\ streams[1].asm = [payload |-> <<65, 65>>, ready |-> TRUE]
    /\ "c1" \notin DOMAIN streams[1].buffers
    /\ "c1" \in DOMAIN streams[2].buffers /\ streams[2].buffers["c1"] = <<66>>

(* C19: concurrent Infer streams on one UnifiedMLService batch             *)
(* independently: a batch dispatched for a stream holds only requests read *)
(* on that stream, the batch size is counted per stream, and every         *)
(* response is emitted on the stream that carried its request.             *)
C19_StreamsBatchAlone ==
    /\ [](svc = "unified" =>
            \A s \in DOMAIN streams :
                LET st == streams[s] IN
                /\ \A i \in 1..Len(st.batch) : FromStream(s, st.batch[i].payload)
                /\ \A i \in 1..Len(st.dispatched) : FromStream(s, st.dispatched[i].payload)
                /\ \A j \in 1..Len(st.out) : FromStream(s, st.out[j].result[1])
                /\ Len(st.out) = Len(st.dispatched)
                /\ Len(st.dispatched) <= BATCH_SIZE
                /\ st.pc = "await" => Len(st.batch) = st.nread % BATCH_SIZE)
    /\ [][svc = "unified" => OthersUntouched]_vars

\* The first stream dispatches a full batch while the second holds three
\* requests of its own.
C19_Witness ==
    /\ svc = "unified" /\ mode = "conc"
    /\ Len(streams[1].dispatched) = BATCH_SIZE /\ Len(streams[1].out) = BATCH_SIZE
    /\ streams[2].pc = "await" /\ Len(streams[2].batch) = 3

\* A loop iteration of CLIPService.Infer / BioClipService.Infer.
ChunkedReadStep == svc \in {"clip", "bioclip"} /\ nread' = nread + 1

\* An entry of the buffer map stays as it is while other ids are served and
\* grows with fragments of its own id; it goes when its id completes or
\* the stream ends.
PendingKept ==
    \A c \in DOMAIN buffers :
        \/ /\ c \in DOMAIN buffers'
           /\ \/ buffers'[c] = buffers[c]
              \/ ChunkedReadStep /\ lastMsg'.correlation_id = c
        \/ ChunkedReadStep /\ lastMsg'.correlation_id = c /\ lastAsm'.ready
        \/ pc' = "closed"

\* A message of another id is answered as if the pending entry were not
\* there.
OthersAnswered ==
    ChunkedReadStep =>
        \A c \in DOMAIN buffers \ {lastMsg'.correlation_id} :
            lastOut' = Answer(svc, lastMsg', Deleted(c, buffers))

(* C20: a chunked request whose final fragment never arrives gets no       *)
(* response, neither success nor error; its buffer entry stays in the      *)
(* stream's buffer map until the stream ends and goes with it; the other   *)
(* correlation ids of the stream are answered as usual.                    *)
C20_IncompleteUploadIsSilent ==
    /\ [](svc \in {"clip", "bioclip"} =>
            /\ (lastMsg # NoMsg /\ ~lastAsm.ready) =>
                   /\ lastOut = <<>>
                   /\ lastMsg.correlation_id \in DOMAIN buffers
            /\ pc = "closed" => buffers = <<>>)
    /\ [][(svc \in {"clip", "bioclip"}) => PendingKept /\ OthersAnswered]_vars
    /\ (svc \in {"clip", "bioclip"} /\ inbound = "ended") ~> (pc = "closed" /\ buffers = <<>>)

\* The upload of c1 is pending while c2 is answered with a result.
C20_Witness ==
    /\ svc = "clip" /\ pc = "await"
    /\ "c1" \in DOMAIN buffers /\ track["c1"].open
    /\ lastMsg.correlation_id = "c2"
    /\ Len(lastOut) = 1 /\ lastOut[1].error = "NONE"

----------------------------------------------------------------------------
\* The counter a success response reports for its result: dim for an
\* embedding, labels_count for labels.
CounterOf(r) == IF r.result_mime = EmbeddingMime THEN "dim" ELSE "labels_count"

(* C21: every success response emitted by an Infer implementation has a    *)
(* meta map that contains a computed latency entry (lat_ms) in addition to *)
(* its task-specific counter (dim for embeddings, labels_count for         *)
(* classifications).                                                       *)
C21_SuccessMetaHasLatency ==
    \A j \in 1..Len(lastOut) :
        lastOut[j].error = "NONE" =>
            /\ "lat_ms" \in DOMAIN lastOut[j].meta
            /\ CounterOf(lastOut[j]) \in DOMAIN lastOut[j].meta

\* A classify request that asks for k labels, 1 <= k <= the label set.
AsksForLabels(m) ==
    /\ m.task \in {"classify", "clip_classify", "bioclip_classify"}
    /\ m.meta.topk \in Numerals
    /\ IntOf(m.meta.topk) \in 1..NumLabels

\* The response r holds as many labels as the request m asked for, and
\* says so.
HoldsAsked(m, r) ==
    r.error = "NONE" =>
        /\ Len(r.labels) = IntOf(m.meta.topk)
        /\ r.meta["labels_count"] = m.meta.topk

(* C22: for a classify request whose meta carries topk = k with            *)
(* 1 <= k <= size of the label set, the success response's labels array    *)
(* has exactly k entries and meta labels_count = k, in CLIPService,        *)
(* BioClipService and UnifiedMLService.                                    *)
C22_TopkLabels ==
    /\ (svc \in {"clip", "bioclip"} /\ lastMsg # NoMsg /\ AsksForLabels(lastMsg)) =>
           \A j \in 1..Len(lastOut) : HoldsAsked(lastMsg, lastOut[j])
    /\ Dispatched =>
           \A i \in 1..Len(LastSegs) :
               GroupSucceeded(LastSegs[i]) =>
                   \A k \in 1..Len(LastSegs[i].requests) :
                       AsksForLabels(LastSegs[i].requests[k]) =>
                           HoldsAsked(LastSegs[i].requests[k], LastSegs[i].out[k])

\* The animal-like subset of the scene labels: animal, bird, insect.
AnimalLike(scene_label) == scene_label[Len(scene_label)] \in {"animal", "bird", "insect"}

\* The response r answers the smart_classify request req by the two-stage
\* policy.
TwoStage(req, r) ==
    LET scene_label == scene_prompts[BestScene(req.payload)] IN
    IF ~AnimalLike(scene_label)
    THEN /\ r.labels = <<scene_label>>
         /\ r.meta["source"] = "scene_classification"
         /\ r.meta["labels_count"] = "1"
    ELSE /\ r.labels = Ranked("bioclip", TopK(req.meta.topk, 3))
         /\ r.meta["source"] = "bioclip_classification"

TookChunkedPath(service, m) ==
    IF service = "clip" THEN m.total > 1 ELSE ~NoCoordinates(m)

\* The last fragment of an upload, by its own fields.
FinalFragment(m) == m.seq + 1 = m.total

\* What a loop iteration that read `m` may do to the buffer map: entries of
\* other ids stay as they are; a message passed through touches nothing; on
\* the chunked path a non-final fragment creates the entry of its id or
\* appends to it, and the final fragment leaves no entry for its id.
LifecycleStep(m) ==
    LET c == m.correlation_id IN
    /\ \A k \in (DOMAIN buffers \cup DOMAIN buffers') \ {c} :
           k \in DOMAIN buffers /\ k \in DOMAIN buffers' /\ buffers'[k] = buffers[k]
    /\ ~TookChunkedPath(svc, m) => buffers' = buffers
    /\ (TookChunkedPath(svc, m) /\ ~FinalFragment(m)) =>
           /\ c \in DOMAIN buffers'
           /\ buffers'[c] = (IF c \in DOMAIN buffers THEN buffers[c] ELSE <<>>) \o m.payload
    /\ (TookChunkedPath(svc, m) /\ FinalFragment(m)) => c \notin DOMAIN buffers'

(* C24 (as the code has it): in CLIPService and BioClipService the buffer  *)
(* map starts empty and an entry for a correlation id is created, appended *)
(* to or deleted only by a message that carries that id and takes the      *)
(* chunked path; after such a message the id has an entry exactly when the *)
(* message was a non-final fragment, and none right after the one with     *)
(* seq + 1 = total.  So at every point an id has an entry only if the most *)
(* recent chunked-path message for it was a non-final fragment.            *)
C24_BufferLifecycle ==
    /\ [](svc \in {"clip", "bioclip"} /\ nread = 0 => buffers = <<>>)
    /\ [][(svc \in {"clip", "bioclip"}) =>
            /\ ChunkedReadStep => LifecycleStep(lastMsg')
            /\ ~ChunkedReadStep => (buffers' = buffers \/ pc' = "closed")]_vars

\* Over an entry left by another id's unfinished upload, c1 uploads two
\* fragments: the entry of c1 is gone after the second.
C24_Witness ==
    /\ svc = "bioclip" /\ nread = 3
    /\ lastMsg.correlation_id = "c1" /\ lastMsg.seq = 1 /\ lastMsg.total = 2
    /\ lastAsm.ready /\ Len(lastAsm.payload) = 2
    /\ DOMAIN buffers = {"c2"}

(* C24 (as stated): immediately after the message with seq + 1 = total for *)
(* an id there is no buffer entry for that id.                             *)
C24_AsStated ==
    (svc \in {"clip", "bioclip"} /\ lastMsg # NoMsg /\ FinalFragment(lastMsg)) =>
        lastMsg.correlation_id \notin DOMAIN buffers

\* The group of lastBatch[a] was handled by a handler that returned.
InCompletedGroup(a) ==
    \E i \in 1..Len(LastSegs) :
        LastSegs[i].task = lastBatch[a].task /\ GroupSucceeded(LastSegs[i])

TasksOf(reqs) == {reqs[i].task : i \in 1..Len(reqs)}
CountOf(reqs, task) == Cardinality({i \in 1..Len(reqs) : reqs[i].task = task})

(* C26: _process_batch partitions the batch by exact task name: every      *)
(* request of the batch is in exactly one group, two requests are in the   *)
(* same group iff their task strings are equal, and the handler of each    *)
(* recognized task is invoked exactly once per batch, with all of that     *)
(* task's requests.                                                        *)
C26_PartitionByTask ==
    /\ [](Dispatched =>
            /\ \A i, j \in 1..Len(LastSegs) : i # j => LastSegs[i].task # LastSegs[j].task
            /\ {LastSegs[i].task : i \in 1..Len(LastSegs)} = TasksOf(lastBatch)
            /\ \A i \in 1..Len(LastSegs) :
                   /\ \A k \in 1..Len(LastSegs[i].requests) :
                          /\ LastSegs[i].requests[k].task = LastSegs[i].task
                          /\ \E b \in 1..Len(lastBatch) : lastBatch[b] = LastSegs[i].requests[k]
                   /\ Len(LastSegs[i].requests) = CountOf(lastBatch, LastSegs[i].task))
    /\ [][DispatchStep =>
            nhandler' = nhandler + Cardinality(TasksOf(lastBatch') \cap UnifiedTasks)]_vars

\* A batch of three requests in two groups, both tasks recognized: two
\* handler calls, one of them with two requests.
C26_Witness ==
    /\ Dispatched /\ Len(lastBatch) = 3 /\ nhandler = 2
    /\ Len(LastSegs) = 2
    /\ lastBatch[1].task = "clip_classify" /\ lastBatch[2].task = "clip_image_embed"
    /\ lastBatch[3].task = "clip_classify"
    /\ Len(LastSegs[1].requests) = 2

----------------------------------------------------------------------------
\* The moves of the loop of UnifiedMLService.Infer between its positions:
\* AWAITING_INPUT is "await", ACCUMULATING "accumulating", DISPATCHING
\* "dispatching" (and "flushing" at the end of the stream), STREAM_CLOSED
\* "closed".
LoopMoves ==
    {<<"start", "await">>, <<"start", "aborted">>,
     <<"await", "accumulating">>, <<"accumulating", "await">>,
     <<"accumulating", "dispatching">>, <<"dispatching", "await">>,
     <<"await", "flushing">>, <<"flushing", "closed">>, <<"await", "closed">>}

\* _process_batch is running.
Yielding == pc \in {"dispatching", "flushing"}

(* C27: the loop of UnifiedMLService.Infer goes AWAITING_INPUT ->          *)
(* ACCUMULATING -> DISPATCHING -> AWAITING_INPUT: a request is read only   *)
(* while no response of a dispatched batch is outstanding, so all          *)
(* responses of a batch are emitted before the next request is read; the   *)
(* accumulation restarts empty after a dispatch; and the batches           *)
(* dispatched so far, end to end, followed by what is accumulating, are    *)
(* the requests received, in order: every request goes into exactly one    *)
(* batch, none twice and none lost.                                        *)
C27_LoopStates ==
    /\ [][pc' # pc => <<pc, pc'>> \in LoopMoves]_vars
    /\ [][nread' # nread => (pc = "await" /\ pending = <<>> /\ pc' = "accumulating")]_vars
    /\ [][(Yielding /\ pc' # pc) =>
            /\ pending = <<>>
            /\ lastOut = UnifiedMLService_process_batch(lastBatch)
            /\ pc = "dispatching" => batch' = <<>>]_vars
    /\ [](pending # <<>> => Yielding)
    /\ [](received = (IF Yielding \/ pc = "closed" THEN dispatched ELSE dispatched \o batch))
    /\ [](pc = "closed" => /\ Len(dispatched) = nread
                           /\ dispatched = received)

\* A second batch accumulates after the first was dispatched and answered.
C27_Witness ==
    /\ pc = "accumulating"
    /\ nread = BATCH_SIZE + 1 /\ ndispatch = 1 /\ nresp >= BATCH_SIZE
    /\ Len(batch) = 1 /\ batch[1].correlation_id = "r9"
    /\ Len(dispatched) = BATCH_SIZE

\* The generator is blocked on the request iterator of a stream the client
\* has not ended, with fewer than BATCH_SIZE requests accumulated.
Waiting == mode = "step" /\ pc = "await" /\ inbound = "open" /\ Len(batch) < BATCH_SIZE

(* C28: in UnifiedMLService.Infer a request is answered only after         *)
(* BATCH_SIZE requests have accumulated or the inbound stream has ended.   *)
(* While the stream is open with fewer than BATCH_SIZE requests            *)
(* accumulated, every accumulated request is unanswered and the generator  *)
(* has no step of its own to take: a client that waits for a response      *)
(* before it sends more or ends the stream never gets one.  Once the       *)
(* client fills the batch or ends the stream, every request received is    *)
(* answered.                                                               *)
C28_AnsweredOnlyOnFullOrEnd ==
    /\ [][nresp' # nresp =>
            /\ nresp' = nresp + 1
            /\ Len(lastBatch) = BATCH_SIZE \/ inbound = "ended"]_vars
    /\ [](Waiting => unanswered = batch /\ ~ENABLED Advance)
    /\ (pc = "accumulating" /\ Len(batch) = BATCH_SIZE) ~> (pc = "await" /\ unanswered = <<>>)
    /\ (mode = "step" /\ inbound = "ended") ~> (pc = "closed" /\ unanswered = <<>>)

\* Seven requests sent, none answered, and the next move is the client's.
C28_Witness ==
    /\ Waiting
    /\ nread = BATCH_SIZE - 1 /\ Len(batch) = BATCH_SIZE - 1
    /\ nresp = 0 /\ Len(unanswered) = BATCH_SIZE - 1

\* Where a task name first appears in a batch.
FirstAppearance(reqs, task) ==
    CHOOSE i \in 1..Len(reqs) :
        /\ reqs[i].task = task
        /\ \A j \in 1..(i - 1) : reqs[j].task # task

\* The task of the request of the batch that carries `cid`.
TaskOfCid(reqs, cid) ==
    reqs[CHOOSE i \in 1..Len(reqs) : reqs[i].correlation_id = cid].task

(* C29: _process_batch handles the task groups one after another in the    *)
(* order in which each task name first appears in the batch, and yields    *)
(* all responses of one group (results or errors) before any response of   *)
(* the next: of two responses, the earlier belongs to the group that was   *)
(* opened first, or to the same group.                                     *)
C29_GroupsInOrderOfAppearance ==
    (mode = "step" /\ lastBatch # <<>> /\ DistinctIds(lastBatch)) =>
        /\ \A p \in 1..Len(lastOut) :
               \E i \in 1..Len(lastBatch) :
                   lastBatch[i].correlation_id = lastOut[p].correlation_id
        /\ \A p, q \in 1..Len(lastOut) :
               p < q =>
                   FirstAppearance(lastBatch, TaskOfCid(lastBatch, lastOut[p].correlation_id))
                       <= FirstAppearance(lastBatch,
                                          TaskOfCid(lastBatch, lastOut[q].correlation_id))

\* A full batch whose first group is the image embeddings r1 and r3: they
\* fail together and get their errors first, and only then the text
\* embedding r2, read between them, gets its result.
C29_Witness ==
    /\ pc = "dispatching" /\ pending = <<>> /\ Len(lastBatch) = BATCH_SIZE
    /\ lastBatch[1].task = "clip_image_embed" /\ lastBatch[2].task = "clip_embed"
    /\ lastBatch[3].task = "clip_image_embed" /\ lastBatch[3].payload = <<255>>
    /\ Len(lastOut) = BATCH_SIZE
    /\ lastOut[1].correlation_id = "r1" /\ lastOut[1].error = "INTERNAL"
    /\ lastOut[2].correlation_id = "r3" /\ lastOut[2].error = "INTERNAL"
    /\ lastOut[3].correlation_id = "r2" /\ lastOut[3].error = "NONE"

----------------------------------------------------------------------------
\* The payloads of `reqs`, end to end.
RECURSIVE Joined(_)
Joined(reqs) == IF reqs = <<>> THEN <<>> ELSE Head(reqs).payload \o Joined(Tail(reqs))

\* The stream has carried exactly the fragments 0..total-1 of one upload,
\* in order.
WholeUpload ==
    /\ mode = "frag" /\ lastMsg # NoMsg
    /\ Len(received) = MaxTotal
    /\ \A i \in 1..Len(received) : received[i].seq = i - 1 /\ received[i].total = MaxTotal

(* C30: for a chunked request in CLIPService.Infer and BioClipService.Infer *)
(* the task, payload_mime and meta that route and answer the reassembled   *)
(* payload are those of the final fragment: whatever task, payload_mime    *)
(* and meta the earlier fragments carried, the response is the one the     *)
(* final fragment would get if it carried the whole payload itself.        *)
C30_FinalFragmentDecides ==
    WholeUpload =>
        /\ lastAsm = [payload |-> Joined(received), ready |-> TRUE]
        /\ lastOut = OneShot(svc, Unsplit(received[Len(received)], Joined(received)))

\* An upload that starts as a text embedding with a topk no one can parse
\* and ends as an image classification asking for two labels: BioClipService
\* answers with two labels.
C30_Witness ==
    /\ WholeUpload /\ svc = "bioclip"
    /\ received[1].task = "embed" /\ received[1].payload_mime = "text/plain"
    /\ received[1].meta.topk = "x"
    /\ lastMsg.task = "classify" /\ lastMsg.payload_mime = "image/jpeg"
    /\ lastMsg.meta.topk = "2"
    /\ Len(lastOut) = 1 /\ lastOut[1].error = "NONE" /\ Len(lastOut[1].labels) = 2

----------------------------------------------------------------------------
\* The logical request the i-th message of the stream belongs to, as the
\* client sent it: the requests come one after the other, so it is the
\* number of requests completed before the message.
RequestOf(i) ==
    Cardinality({k \in 1..(i - 1) : CompletesRequest(received[k])})

(* C31: on a CLIPService or BioClipService stream whose messages carry no  *)
(* correlation id, two messages get the same generated id (cid-<ms>)       *)
(* exactly when they belong to the same logical request, whatever the      *)
(* times they arrive at: the fragments of one request share one id, and    *)
(* two different requests never share one.                                 *)
C31_GeneratedIdsIdentifyRequests ==
    mode = "anon" =>
        \A i, j \in 1..Len(received) :
            (RequestOf(i) = RequestOf(j))
                <=> (received[i].correlation_id = received[j].correlation_id)

\* One half of C31: the fragments of one request share one generated id.
C31_FragmentsShareId ==
    mode = "anon" =>
        \A i, j \in 1..Len(received) :
            (RequestOf(i) = RequestOf(j))
                => (received[i].correlation_id = received[j].correlation_id)

\* The other half of C31: two requests never share one generated id.
C31_RequestsNeverShareId ==
    mode = "anon" =>
        \A i, j \in 1..Len(received) :
            (received[i].correlation_id = received[j].correlation_id)
                => (RequestOf(i) = RequestOf(j))

----------------------------------------------------------------------------
\* The model, the label list and the label text embeddings of manager m are
\* all loaded.
Complete(m) ==
    /\ managers[m]._model # "None"
    /\ managers[m].labels # <<>>
    /\ managers[m].text_embeddings # "None"

(* C33: in every reachable state of CLIPModelManager and                   *)
(* BioCLIPModelManager, including the states reached when initialize()     *)
(* raises partway, is_initialized implies that the model, the label list   *)
(* and the label text embeddings are all loaded.                           *)
C33_InitializedMeansLoaded ==
    mode = "manager" => \A m \in Managers : is_initialized[m] => Complete(m)

\* C33 for the states in which no initialize() is running.
C33_AtRest ==
    mode = "manager" =>
        \A m \in Managers : (is_initialized[m] /\ managers[m].at = 0) => Complete(m)

\* C33 for CLIPModelManager alone.
C33_CLIPModelManager ==
    mode = "manager" => (is_initialized.clip => Complete("clip"))

----------------------------------------------------------------------------
\* What initialize() loads and measures: the fields C34 names.
Loaded(m) ==
    <<managers[m]._model, managers[m].labels, managers[m].text_embeddings,
      managers[m].scene_prompt_embeddings, managers[m]._load_time>>

(* C34: initialize() is idempotent.  A call on a manager whose             *)
(* is_initialized is already true returns at once: it runs no statement of *)
(* the load, and the model, the labels, the text embeddings, the load time *)
(* and the flag are what they were.  Step by step, this makes any number   *)
(* of calls after a successful one leave the state of that one call.       *)
C34_InitializeIdempotent ==
    [][\A m \in Managers :
          (/\ mode = "manager"
           /\ is_initialized[m]
           /\ managers[m].at = 0
           /\ managers'[m].calls # managers[m].calls)
          => /\ managers'[m].at = 0
             /\ managers'[m].outcome = "returned"
             /\ Loaded(m)' = Loaded(m)
             /\ is_initialized' = is_initialized]_vars

\* CLIPModelManager was initialized by its first call, BioCLIPModelManager
\* by its second, after the first raised before the flag was set; both
\* have since been called again and returned.
C34_Witness ==
    /\ mode = "manager"
    /\ is_initialized.clip /\ Complete("clip")
    /\ managers.clip.calls = 2 /\ managers.clip.at = 0
    /\ managers.clip.outcome = "returned"
    /\ is_initialized.bioclip /\ Complete("bioclip")
    /\ managers.bioclip.calls = 3 /\ managers.bioclip.at = 0
    /\ managers.bioclip.outcome = "returned"

\* CLIPModelManager, where the flag is set last: whenever initialize() has
\* returned, however often it was called, the manager is complete and
\* flagged, the state one successful call leaves.
C34_SameAsOneCall ==
    mode = "manager" =>
        ((managers.clip.at = 0 /\ managers.clip.outcome = "returned")
            => (is_initialized.clip /\ Complete("clip") /\ managers.clip._load_time >= 0))

----------------------------------------------------------------------------
(* C35: serve() starts the gRPC server only after                          *)
(* UnifiedMLService.initialize() has returned: while the server listens,   *)
(* both managers' initialize() have returned and both are initialized and  *)
(* complete; once an initialize() has raised the server never listens and  *)
(* the process, when it has exited, exited with status 1; and an Infer     *)
(* stream that has started found both models initialized and was not       *)
(* aborted.                                                                *)
C35_ListenOnlyAfterInitialize ==
    mode = "serve" =>
        /\ server.listening =>
               \A m \in Managers :
                   managers[m].outcome = "returned" /\ is_initialized[m] /\ Complete(m)
        /\ (\E m \in Managers : managers[m].outcome = "raised") =>
               (~server.listening /\ server.at \in {"initializing", "exited"})
        /\ server.at = "exited" => (server.exit = 1 /\ ~server.listening /\ pc = "start")
        /\ pc # "start" =>
               (status = "OK" /\ \A m \in Managers : is_initialized[m] /\ Complete(m))

\* The server listens and an Infer stream has passed the entry check.
C35_Witness ==
    /\ mode = "serve"
    /\ server.listening
    /\ pc = "await"
    /\ managers.clip.calls = 1 /\ managers.bioclip.calls = 1

\* The other half of C35: BioCLIPModelManager.initialize raised with the
\* flag already set, and the process has exited with status 1.
C35_ExitWitness ==
    /\ mode = "serve"
    /\ server.at = "exited"
    /\ is_initialized.clip /\ is_initialized.bioclip
    /\ managers.bioclip.outcome = "raised"

----------------------------------------------------------------------------
\* The requests the last loop iteration completed: the message just read
\* (CLIPService, BioClipService), the batch just processed
\* (UnifiedMLService).
Completed ==
    IF svc = "unified" THEN {lastBatch[i] : i \in 1..Len(lastBatch)}
    ELSE IF lastAsm.ready THEN {lastMsg}
    ELSE {}

\* The responses the last loop iteration yielded for request `req`.
ResponsesTo(req) ==
    {lastOut[j] : j \in {k \in 1..Len(lastOut) :
                            lastOut[k].correlation_id = req.correlation_id}}

\* The task names Infer routes to a handler.
Routed(service) == IF service = "unified" THEN UnifiedTasks ELSE RoutedTasks(service)

(* C32: for each servicer the task names its capability advertises are the *)
(* task names Infer routes to a handler: a request for an advertised task  *)
(* is never answered with "Unknown task", and a request for any other task *)
(* is answered, with INVALID_ARGUMENT.                                     *)
C32_AdvertisedIsRouted ==
    mode = "caps" =>
        /\ Advertised(svc) = Routed(svc)
        /\ \A req \in Completed :
               IF req.task \in Advertised(svc)
               THEN \A r \in ResponsesTo(req) : r.message # "Unknown task"
               ELSE /\ ResponsesTo(req) # {}
                    /\ \A r \in ResponsesTo(req) : r.error = "INVALID_ARGUMENT"

\* One batch of UnifiedMLService holds a request for an advertised task,
\* answered with a result, and a request for a task only CLIPService
\* advertises, answered with INVALID_ARGUMENT.
C32_Witness ==
    /\ mode = "caps"
    /\ svc = "unified"
    /\ \E a, b \in Completed :
           /\ a.task = "smart_classify"
           /\ \E r \in ResponsesTo(a) : r.error = "NONE"
           /\ b.task = "classify_scene"
           /\ \E r \in ResponsesTo(b) : r.error = "INVALID_ARGUMENT"

\* CLIPService answers classify_scene, its third advertised task, with a
\* result.
C32_SceneWitness ==
    /\ mode = "caps"
    /\ svc = "clip"
    /\ \E a \in Completed :
           a.task = "classify_scene" /\ \E r \in ResponsesTo(a) : r.error = "NONE"

----------------------------------------------------------------------------
\* The last call was a BatchPredict.
Batched == mode = "pml" /\ call.rpc = "BatchPredict"

\* What Predict answers to the i-th request of the last BatchPredict, the
\* batch's model name applied.
PredictOf(i) ==
    Predict(servicer.services, Overridden(call.request, call.request.requests[i]))

(* C36: a BatchPredict response holds exactly one PredictResponse per      *)
(* request of the batch, the i-th being what Predict returns for the i-th  *)
(* request, and success_count + failed_count is the number of requests.    *)
C36_OneResponsePerRequest ==
    Batched =>
        /\ ~call.raised
        /\ Len(call.response.responses) = Len(call.request.requests)
        /\ \A i \in 1..Len(call.request.requests) :
               call.response.responses[i] = PredictOf(i).response
        /\ call.response.success_count + call.response.failed_count
               = Len(call.request.requests)

\* A batch of two: the first request fails (an empty response), the second
\* yields a prediction, in that order.
C36_Witness ==
    /\ Batched
    /\ Len(call.request.requests) = 2
    /\ call.response.responses[1] = EmptyPredictResponse
    /\ call.response.responses[2].prediction_floats = <<"image", <<65>> >>

\* The requests of the last BatchPredict whose Predict ended with an error
\* status.
FailedRequests ==
    {i \in 1..Len(call.request.requests) : PredictOf(i).code # "OK"}

(* C37: in a BatchPredict response failed_count is the number of requests  *)
(* whose Predict ended with an error status, success_count the number of   *)
(* requests that produced a prediction, and each failed request            *)
(* contributes an empty PredictResponse.                                   *)
C37_CountsTellFailures ==
    Batched =>
        /\ call.response.failed_count = Cardinality(FailedRequests)
        /\ call.response.success_count
               = Len(call.request.requests) - Cardinality(FailedRequests)
        /\ \A i \in FailedRequests : call.response.responses[i] = EmptyPredictResponse

\* What does hold of C37: a failed request contributes an empty response.
C37_FailedIsEmpty ==
    Batched => \A i \in FailedRequests : call.response.responses[i] = EmptyPredictResponse

(* C38: when the initialization of the CLIP service failed as the servicer *)
(* was constructed, the servicer exists, 'clip' is not registered, and     *)
(* every ProcessImageForCLIP, GetTextEmbeddingForCLIP and Predict for      *)
(* model clip is answered with FAILED_PRECONDITION and an empty response,  *)
(* every HealthCheck for clip and for all reports NOT_SERVING, and no call *)
(* lets an exception escape.                                               *)
C38_InitFailureContained ==
    (mode = "pml" /\ servicer.initialization = "raised") =>
        /\ servicer.constructed
        /\ "clip" \notin DOMAIN servicer.services
        /\ ~call.raised
        /\ call.rpc = "ProcessImageForCLIP" =>
               (call.code = "FAILED_PRECONDITION"
                /\ call.response = EmptyImageProcessResponse)
        /\ call.rpc = "GetTextEmbeddingForCLIP" =>
               (call.code = "FAILED_PRECONDITION"
                /\ call.response = EmptyTextEmbeddingResponse)
        /\ (call.rpc = "Predict" /\ Lower(call.request.model_name) = "clip") =>
               (call.code = "FAILED_PRECONDITION" /\ call.response = EmptyPredictResponse)
        /\ (call.rpc = "HealthCheck"
            /\ Lower(call.request.service_name) \in {"clip", "all"}) =>
               call.response.status = "NOT_SERVING"

\* Initialization failed, and a Predict for model CLIP with a good image was
\* refused.
C38_Witness ==
    /\ mode = "pml"
    /\ servicer.initialization = "raised"
    /\ call.rpc = "Predict"
    /\ call.request.model_name = "CLIP"
    /\ call.request.raw_data = <<65>>
    /\ call.code = "FAILED_PRECONDITION"

(* C39: a switch_model that fails reverts: when loading the new model      *)
(* raises, the exception leaves the call and clip_model, model_name,       *)
(* pretrained and is_initialized of the service are what they were before  *)
(* the call.                                                               *)
C39_SwitchReverts ==
    [][(mode = "pml" /\ call'.rpc = "switch_model" /\ call'.raised)
          => servicer'.services = servicer.services]_vars

\* What does hold of C39: the model and its names are put back.
C39_ModelReverts ==
    [][(mode = "pml" /\ call'.rpc = "switch_model" /\ call'.raised)
          => /\ servicer'.services.clip.clip_model = servicer.services.clip.clip_model
             /\ servicer'.services.clip.model_name = servicer.services.clip.model_name
             /\ servicer'.services.clip.pretrained = servicer.services.clip.pretrained]_vars

====
